---- MODULE Spec2Model ----
(***************************************************************************)
(* Model of the two screens of korvagen-app:                               *)
(*   - CreateRouteScreen.tsx : location search, waypoint collector, form   *)
(*     submission (handleCreate);                                          *)
(*   - MapScreen (unnamed/part_000) : the same location search and the     *)
(*     draggable bottom panel.                                             *)
(* Strings are sequences of one-character strings so that trim() and       *)
(* startsWith() are computed, not assumed.                                 *)
(***************************************************************************)
EXTENDS Integers, Sequences, FiniteSets, TLC

VARIABLES
    \* ---- location search (both screens) ----
    searchQuery,        \* useState('')
    searchResults,      \* useState([])
    showSearchResults,  \* useState(false)
    searchTimeout,      \* useState(null): {} is null, {id} a timer handle
    timers,             \* the JS timer queue: pending setTimeout callbacks
    lookups,            \* debounced callbacks that have fired and are awaiting
    now,                \* wall clock, ms
    \* ---- history of the search (observation only) ----
    calls,              \* every handleSearch call: query, time, timer it scheduled
    geocodeLog,         \* every Location.geocodeAsync invocation
    completed,          \* how each fired lookup ended
    resultsFrom,        \* the lookup whose setSearchResults is displayed
    lastHits,           \* the geocode hits of that lookup
    \* ---- waypoint collector (create-route screen) ----
    waypoints,          \* useState<Waypoint[]>([])
    region,             \* useState({55.7047, 13.191, 0.1, 0.1})
    \* ---- draggable panel (map screen) ----
    translateY,         \* Animated.Value: the offset the panel is displayed at
    animTo,             \* running Animated.spring: {} none, {p} towards p
    currentSnapPoint,   \* useState(snapPoints.collapsed)
    lastGesture,        \* useRef(snapPoints.collapsed)
    scrollOffset,       \* useRef(0)
    isDragging,         \* useRef(false)
    selectedRoute,      \* useState(null): {} is null
    gestureState,       \* state of the PanGestureHandler
    settled,            \* history: the offset the panel was last sent to rest at
    \* ---- form / media aggregator (create-route screen) ----
    isEditing,          \* !!route.params.routeId
    userId,             \* useAuth().user?.id, <<>> when signed out
    formName,           \* formData.name
    media,              \* useState<MediaItem[]>([])
    exercises,          \* useState<Exercise[]>([])
    loading,            \* useState(false)
    error,              \* useState(null): <<>> is null
    navigated,          \* navigation.goBack() was called
    db,                 \* the backend's row of this route
    create,             \* the running handleCreate: its position and closure
    backendLog,         \* history: every backend call issued, in order
    written,            \* history: {} or the closure of the last successful write
    loadPc,             \* loadRouteData: "none", "pending" or "done"
    seed,               \* the mount effect that seeds from the device location
    untouched,          \* history: the form was loaded from the row while no
                        \* submission ran, and the exercise list not edited since
    taps,               \* handleMapPress calls awaiting their reverse-geocode
    prompts,            \* pickMedia / takePhoto / recordVideo calls awaiting
    appended,           \* history: the attachments appended to the row by a writer
    other,              \* a second writer of the row's media_attachments
    \* ---- mount of the map screen ----
    routes,             \* useState<RouteType[]>([])
    isMapReady,         \* useState(false)
    mapMount,           \* the two mount effects: loadRoutes and the location request
    unhandled,          \* history: the async calls whose rejection nothing caught
    \* ---- shared ----
    lastOp              \* the handler that ran in the last step, with its input

searchVars == <<searchQuery, searchResults, showSearchResults, searchTimeout,
                timers, lookups, now, calls, geocodeLog, completed,
                resultsFrom, lastHits>>

waypointVars == <<waypoints, region>>

panelVars == <<translateY, animTo, currentSnapPoint, lastGesture, scrollOffset,
               isDragging, selectedRoute, gestureState, settled>>

\* the handlers awaiting a device call, and the mount effects of the map screen
uploadVars == <<appended, other>>

asyncVars == <<taps, prompts, uploadVars, routes, isMapReady, mapMount, unhandled>>

mountVars == <<loadPc, seed, untouched, asyncVars>>

formVars == <<isEditing, userId, formName, media, exercises, loading, error,
              navigated, db, create, backendLog, written, mountVars>>

vars == <<searchVars, waypointVars, panelVars, formVars, lastOp>>

(***************************************************************************)
(* Bounds                                                                  *)
(***************************************************************************)
MaxCalls == 2       \* handleSearch calls in one behaviour
MaxHits == 3        \* geocode hits returned by one geocodeAsync call
MaxWaypoints == 2   \* waypoints collected in one behaviour
MaxDrag == 6        \* largest translationY of one gesture event
MaxSubmits == 1     \* handleCreate runs that pass validation, in one behaviour
MaxMedia == 1       \* media items added to the local list in one session
MaxExercises == 1   \* exercises in the form's list
MaxPicked == 2      \* files picked before a submission whose uploads are followed
MaxOtherWrites == 1 \* writes of media_attachments by a second writer
MaxPrompts == 1     \* picker or camera prompts open at a time

(***************************************************************************)
(* Strings                                                                 *)
(***************************************************************************)
WhiteSpace == {" ", "\t"}

RECURSIVE TrimStart(_)
TrimStart(s) ==
    IF s = <<>> THEN s
    ELSE IF Head(s) \in WhiteSpace THEN TrimStart(Tail(s)) ELSE s

RECURSIVE TrimEnd(_)
TrimEnd(s) ==
    IF s = <<>> THEN s
    ELSE IF s[Len(s)] \in WhiteSpace THEN TrimEnd(SubSeq(s, 1, Len(s) - 1)) ELSE s

\* String.prototype.trim
Trim(s) == TrimEnd(TrimStart(s))

IsBlankNoTrim(s) == s = <<>>

\* `!query.trim()` : the empty string is the only falsy string
IsBlank(s) == Trim(s) = <<>>

\* the queries typed into the search field
Queries == { <<>>, <<"\t", " ">>, <<"a">>, <<" ", "b">> }

(***************************************************************************)
(* Geocoding service (external): hits and addresses                        *)
(***************************************************************************)
Coords == { [latitude |-> 0, longitude |-> 0],
            [latitude |-> 0, longitude |-> 1],
            [latitude |-> 1, longitude |-> 0] }

SeqsUpTo(S, n) == UNION { [1..k -> S] : k \in 0..n }

HitLists == SeqsUpTo(Coords, MaxHits)

\* reverseGeocodeAsync returns a list; address[0] is undefined when it is empty
\* (an absent field and the empty string are both falsy: <<>> stands for either)
NoAddress == [street |-> <<>>, city |-> <<>>, country |-> <<>>]
Addresses == { NoAddress, [street |-> <<"S", "t">>, city |-> <<>>, country |-> <<"S", "E">>] }

DebounceMs == 300
TickMs == DebounceMs \div 2
MaxTime == 2 * DebounceMs

\* the fallback terms of the lookup, in order (index 0 is the raw query)
Suffixes == << <<>>,
               <<",", " ", "S", "w", "e", "d", "e", "n">>,
               <<",", " ", "G", "o", "t", "h", "e", "n", "b", "u", "r", "g">>,
               <<",", " ", "S", "t", "o", "c", "k", "h", "o", "l", "m">>,
               <<",", " ", "M", "a", "l", "m", "o">>,
               <<>> >>
SearchTerm(query, k) == query \o Suffixes[k + 1]
LastTerm == Len(Suffixes) - 1

(***************************************************************************)
(* Deduplication of the reverse-geocoded hits                              *)
(***************************************************************************)
SameCoords(a, b) ==
    a.coords.latitude = b.coords.latitude /\ a.coords.longitude = b.coords.longitude

FirstIndexIn(self, matches) ==
    IF matches = {} THEN 0 ELSE CHOOSE i \in matches : \A j \in matches : i <= j

\* self.findIndex(a => a.coords.latitude === addr.coords.latitude &&
\*                     a.coords.longitude === addr.coords.longitude)
\* (1-based here; 0 when nothing matches)
FindIndex(self, addr) ==
    FirstIndexIn(self, { i \in 1..Len(self) : SameCoords(self[i], addr) })

\* the elements of self whose index is in keep, in order
RECURSIVE SelectIndices(_, _, _)
SelectIndices(self, keep, i) ==
    IF i > Len(self) THEN <<>>
    ELSE (IF i \in keep THEN <<self[i]>> ELSE <<>>) \o SelectIndices(self, keep, i + 1)

UniqueAddressesLatOnly(addresses) ==
    SelectIndices(addresses,
        { index \in 1..Len(addresses) :
            index = FirstIndexIn(addresses,
                { i \in 1..Len(addresses) :
                    addresses[i].coords.latitude = addresses[index].coords.latitude }) },
        1)

\* addresses.filter((addr, index, self) => addr && addr.coords &&
\*    index === self.findIndex(...))
UniqueAddresses(addresses) ==
    SelectIndices(addresses,
        { index \in 1..Len(addresses) : index = FindIndex(addresses, addresses[index]) },
        1)

\* { ...address[0], coords: { latitude, longitude } }
Entry(address, hit) ==
    [street |-> address.street, city |-> address.city, country |-> address.country,
     coords |-> [latitude |-> hit.latitude, longitude |-> hit.longitude]]

(***************************************************************************)
(* handleSearch                                                            *)
(***************************************************************************)
ClearTimeoutNoop(queue, handle) == queue

\* clearTimeout(searchTimeout): a no-op for a timer that has fired already
ClearTimeout(queue, handle) == { t \in queue : t.id \notin handle }

NewTimerId == Len(calls) + 1

HandleSearch(query) ==
    /\ searchQuery' = query
    /\ IF IsBlank(query)
       THEN /\ timers' = ClearTimeout(timers, searchTimeout)
            /\ searchResults' = <<>>
            /\ showSearchResults' = FALSE
            /\ UNCHANGED searchTimeout
            /\ calls' = Append(calls, [query |-> query, at |-> now, timer |-> {}])
       ELSE /\ timers' = ClearTimeout(timers, searchTimeout)
                           \cup { [id |-> NewTimerId, query |-> query,
                                   due |-> now + DebounceMs] }
            /\ searchTimeout' = {NewTimerId}
            /\ UNCHANGED <<searchResults, showSearchResults>>
            /\ calls' = Append(calls, [query |-> query, at |-> now,
                                       timer |-> {NewTimerId}])
    /\ lastOp' = [op |-> "handleSearch", query |-> query]
    /\ UNCHANGED <<lookups, now, geocodeLog, completed, resultsFrom, lastHits>>
    /\ UNCHANGED <<waypointVars, panelVars, formVars>>

\* time passes
Tick ==
    /\ now + TickMs <= MaxTime
    /\ now' = now + TickMs
    /\ lastOp' = [op |-> "tick"]
    /\ UNCHANGED <<searchQuery, searchResults, showSearchResults, searchTimeout,
                   timers, lookups, calls, geocodeLog, completed, resultsFrom,
                   lastHits>>
    /\ UNCHANGED <<waypointVars, panelVars, formVars>>

\* the debounce timer fires: the callback starts with geocodeAsync(query)
TimerFire(t) ==
    /\ t \in timers
    /\ now >= t.due
    /\ timers' = timers \ {t}
    /\ lookups' = lookups \cup { [id |-> t.id, query |-> t.query, pc |-> "geocode",
                                  term |-> 0, hits |-> <<>>] }
    /\ geocodeLog' = geocodeLog \cup { [id |-> t.id, term |-> t.query] }
    /\ lastOp' = [op |-> "timer"]
    /\ UNCHANGED <<searchQuery, searchResults, showSearchResults, searchTimeout,
                   now, calls, completed, resultsFrom, lastHits>>
    /\ UNCHANGED <<waypointVars, panelVars, formVars>>

Finish(l, how) ==
    /\ lookups' = lookups \ {l}
    /\ completed' = completed \cup { [id |-> l.id, outcome |-> how] }

\* a geocodeAsync call of lookup l returns `hits`
GeocodeReturn(l, hits) ==
    /\ l \in lookups /\ l.pc = "geocode"
    /\ IF hits # <<>>
       THEN \* results.length > 0: reverse-geocode every hit (Promise.all)
            /\ lookups' = (lookups \ {l}) \cup { [l EXCEPT !.pc = "reverse", !.hits = hits] }
            /\ UNCHANGED <<geocodeLog, completed>>
       ELSE IF l.term < LastTerm
       THEN \* next search term
            /\ lookups' = (lookups \ {l}) \cup { [l EXCEPT !.term = l.term + 1] }
            /\ geocodeLog' = geocodeLog \cup
                                { [id |-> l.id, term |-> SearchTerm(l.query, l.term + 1)] }
            /\ UNCHANGED completed
       ELSE \* every term came back empty: nothing is set
            /\ Finish(l, "empty")
            /\ UNCHANGED geocodeLog
    /\ lastOp' = [op |-> "geocodeReturn"]
    /\ UNCHANGED <<searchQuery, searchResults, showSearchResults, searchTimeout,
                   timers, now, calls, resultsFrom, lastHits>>
    /\ UNCHANGED <<waypointVars, panelVars, formVars>>

\* every reverseGeocodeAsync of lookup l has resolved: dedupe and display
ReverseReturn(l, addrs) ==
    /\ l \in lookups /\ l.pc = "reverse"
    /\ Len(addrs) = Len(l.hits)
    /\ searchResults' =
          UniqueAddresses([i \in 1..Len(l.hits) |-> Entry(addrs[i], l.hits[i])])
    /\ showSearchResults' = TRUE
    /\ Finish(l, "applied")
    /\ resultsFrom' = {l.id}
    /\ lastHits' = l.hits
    /\ lastOp' = [op |-> "reverseReturn"]
    /\ UNCHANGED <<searchQuery, searchTimeout, timers, now, calls, geocodeLog>>
    /\ UNCHANGED <<waypointVars, panelVars, formVars>>

LookupThrowClears(l) ==
    /\ l \in lookups
    /\ Finish(l, "error")
    /\ searchResults' = <<>>
    /\ showSearchResults' = FALSE
    /\ lastOp' = [op |-> "lookupThrow"]
    /\ UNCHANGED <<searchQuery, searchTimeout,
                   timers, now, calls, geocodeLog, resultsFrom, lastHits>>
    /\ UNCHANGED <<waypointVars, panelVars, formVars>>

\* a geocodeAsync or reverseGeocodeAsync of lookup l throws: caught and logged
LookupThrow(l) ==
    /\ l \in lookups
    /\ Finish(l, "error")
    /\ lastOp' = [op |-> "lookupThrow"]
    /\ UNCHANGED <<searchQuery, searchResults, showSearchResults, searchTimeout,
                   timers, now, calls, geocodeLog, resultsFrom, lastHits>>
    /\ UNCHANGED <<waypointVars, panelVars, formVars>>

(***************************************************************************)
(* Waypoint collector (CreateRouteScreen)                                  *)
(***************************************************************************)
Min(a, b) == IF a < b THEN a ELSE b
Max(a, b) == IF a > b THEN a ELSE b

SliceJsNoNegativeEnd(s, start, end) ==
    SubSeq(s, Min(Max(start, 0), Len(s)) + 1, Min(Max(end, 0), Len(s)))

\* Array.prototype.slice(start, end): a negative index counts from the end
SliceJs(s, start, end) ==
    LET from == IF start < 0 THEN Max(Len(s) + start, 0) ELSE Min(start, Len(s))
        to   == IF end < 0 THEN Max(Len(s) + end, 0) ELSE Min(end, Len(s))
    IN SubSeq(s, from + 1, to)

RECURSIVE Join(_, _)
\* Array.prototype.join
Join(parts, sep) ==
    IF parts = <<>> THEN <<>>
    ELSE IF Len(parts) = 1 THEN parts[1]
    ELSE parts[1] \o sep \o Join(Tail(parts), sep)

\* [street, city, country].filter(Boolean).join(', ')
FormatTitle(a) ==
    Join(SelectSeq(<<a.street, a.city, a.country>>, LAMBDA x : x # <<>>), <<",", " ">>)

\* coordinates are in units of 0.0001 degree
DefaultRegion ==
    [latitude |-> 557047, longitude |-> 131910,
     latitudeDelta |-> 1000, longitudeDelta |-> 1000]

\* the rows of the result list the user may press, and a result without coords
SelectableResults ==
    { Entry(a, c) : a \in Addresses, c \in Coords } \cup Addresses

HandleLocationSelectReplace(result) ==
    /\ IF "coords" \in DOMAIN result
       THEN /\ region' = [latitude |-> result.coords.latitude,
                          longitude |-> result.coords.longitude,
                          latitudeDelta |-> 100, longitudeDelta |-> 100]
            /\ waypoints' = <<[latitude |-> result.coords.latitude,
                               longitude |-> result.coords.longitude,
                               title |-> FormatTitle(result),
                               description |-> "Searched location"]>>
            /\ searchQuery' = FormatTitle(result)
            /\ showSearchResults' = FALSE
       ELSE UNCHANGED <<region, waypoints, searchQuery, showSearchResults>>
    /\ lastOp' = [op |-> "handleLocationSelect", before |-> waypoints,
                  result |-> result]
    /\ UNCHANGED <<searchResults, searchTimeout, timers, lookups, now, calls,
                   geocodeLog, completed, resultsFrom, lastHits, panelVars, formVars>>

\* handleLocationSelect (create-route screen)
HandleLocationSelect(result) ==
    /\ IF "coords" \in DOMAIN result
       THEN /\ region' = [latitude |-> result.coords.latitude,
                          longitude |-> result.coords.longitude,
                          latitudeDelta |-> 100, longitudeDelta |-> 100]
            /\ waypoints' = Append(waypoints,
                   [latitude |-> result.coords.latitude,
                    longitude |-> result.coords.longitude,
                    title |-> FormatTitle(result),
                    description |-> "Searched location"])
            /\ searchQuery' = FormatTitle(result)
            /\ showSearchResults' = FALSE
       ELSE UNCHANGED <<region, waypoints, searchQuery, showSearchResults>>
    /\ lastOp' = [op |-> "handleLocationSelect", before |-> waypoints,
                  result |-> result]
    /\ UNCHANGED <<searchResults, searchTimeout, timers, lookups, now, calls,
                   geocodeLog, completed, resultsFrom, lastHits, panelVars, formVars>>

\* `${result.street || ''} ${result.city || ''} ${result.country || ''}`.trim()
FormatQueryMap(a) == Trim(a.street \o <<" ">> \o a.city \o <<" ">> \o a.country)

\* handleLocationSelect (map screen): no waypoint
HandleLocationSelectMap(result) ==
    /\ IF "coords" \in DOMAIN result
       THEN /\ region' = [latitude |-> result.coords.latitude,
                          longitude |-> result.coords.longitude,
                          latitudeDelta |-> 100, longitudeDelta |-> 100]
            /\ searchQuery' = FormatQueryMap(result)
            /\ showSearchResults' = FALSE
       ELSE UNCHANGED <<region, searchQuery, showSearchResults>>
    /\ lastOp' = [op |-> "handleLocationSelectMap", before |-> waypoints,
                  result |-> result]
    /\ UNCHANGED <<waypoints, searchResults, searchTimeout, timers, lookups, now, calls,
                   geocodeLog, completed, resultsFrom, lastHits, panelVars, formVars>>

\* 'Remove Last Pin' onPress: setWaypoints(waypoints.slice(0, -1))
RemoveLastPin ==
    /\ waypoints' = SliceJs(waypoints, 0, -1)
    /\ lastOp' = [op |-> "removeLast", before |-> waypoints]
    /\ UNCHANGED <<searchVars, region, panelVars, formVars>>

InitWaypoints ==
    /\ waypoints = <<>>
    /\ region = DefaultRegion

NextWaypoints ==
    \/ \E r \in SelectableResults :
          Len(waypoints) < MaxWaypoints /\ HandleLocationSelect(r)
    \/ RemoveLastPin

(***************************************************************************)
(* Draggable panel (MapScreen)                                             *)
(***************************************************************************)
\* Dimensions.get('window').height, in units in which the snap points are whole
ScreenHeight == 20

Collapsed == (ScreenHeight * 8) \div 10    \* screenHeight * 0.8
Mid == (ScreenHeight * 5) \div 10          \* screenHeight * 0.5
Expanded == (ScreenHeight * 1) \div 10     \* screenHeight * 0.1

Abs(x) == IF x < 0 THEN -x ELSE x

RECURSIVE Reduce(_, _, _, _)
\* positions.reduce((prev, curr) => |curr - off| < |prev - off| ? curr : prev)
\* from index i on, with accumulator prev
Reduce(positions, i, prev, currentOffset) ==
    IF i > Len(positions) THEN prev
    ELSE Reduce(positions, i + 1,
                IF Abs(positions[i] - currentOffset) < Abs(prev - currentOffset)
                THEN positions[i] ELSE prev,
                currentOffset)

RECURSIVE ReduceLastWins(_, _, _, _)
ReduceLastWins(positions, i, prev, currentOffset) ==
    IF i > Len(positions) THEN prev
    ELSE ReduceLastWins(positions, i + 1,
                IF Abs(positions[i] - currentOffset) <= Abs(prev - currentOffset)
                THEN positions[i] ELSE prev,
                currentOffset)

TargetSnapPointLastWins(currentPosition, velocityY) ==
    IF velocityY < -500 THEN Expanded
    ELSE IF velocityY > 500 THEN Collapsed
    ELSE ReduceLastWins(<<Collapsed, Mid, Expanded>>, 2, Collapsed, currentPosition)

TargetSnapPointSlowThreshold(currentPosition, velocityY) ==
    IF velocityY < -600 THEN Expanded
    ELSE IF velocityY > 600 THEN Collapsed
    ELSE Reduce(<<Collapsed, Mid, Expanded>>, 2, Collapsed, currentPosition)

\* targetSnapPoint of onHandleStateChange
TargetSnapPoint(currentPosition, velocityY) ==
    IF velocityY < -500 THEN Expanded
    ELSE IF velocityY > 500 THEN Collapsed
    ELSE Reduce(<<Collapsed, Mid, Expanded>>, 2, Collapsed, currentPosition)

\* Math.max(minTranslate, Math.min(maxTranslate, newTranslateY))
Constrain(newTranslateY) == Max(Expanded, Min(Collapsed, newTranslateY))

Translations == (0 - MaxDrag)..MaxDrag
Velocities == {-600, -501, -500, 0, 500, 501}
ScrollOffsets == {0, 3}
Routes == {"r1", "r2"}
GestureStates == {"BEGAN", "ACTIVE", "END", "CANCELLED", "FAILED"}

\* onGestureEvent: delivered while the gesture is ACTIVE
OnGestureEvent(translationY) ==
    /\ selectedRoute = {}
    /\ gestureState = "ACTIVE"
    /\ isDragging' = TRUE
    /\ translateY' = Constrain(lastGesture + translationY)
    /\ animTo' = {}
    /\ lastOp' = [op |-> "onGestureEvent", translationY |-> translationY]
    /\ UNCHANGED <<currentSnapPoint, lastGesture, scrollOffset, selectedRoute,
                   gestureState, settled, searchVars, waypointVars, formVars>>

\* onHandleStateChange: only State.END is handled
OnHandleStateChange(state, translationY, velocityY) ==
    /\ selectedRoute = {}
    /\ \/ state = "BEGAN" /\ gestureState = "UNDETERMINED"
       \/ state = "ACTIVE" /\ gestureState = "BEGAN"
       \/ state = "FAILED" /\ gestureState = "BEGAN"
       \/ state \in {"END", "CANCELLED"} /\ gestureState = "ACTIVE"
    /\ gestureState' = IF state \in {"BEGAN", "ACTIVE"} THEN state ELSE "UNDETERMINED"
    /\ IF state = "END"
       THEN /\ 0 <= lastGesture + translationY
            /\ lastGesture + translationY <= ScreenHeight
            /\ isDragging' = FALSE
            /\ lastGesture' = lastGesture + translationY
            /\ LET targetSnapPoint ==
                      TargetSnapPoint(lastGesture + translationY, velocityY)
               IN \* snapTo(targetSnapPoint)
                  /\ animTo' = {targetSnapPoint}
                  /\ currentSnapPoint' = targetSnapPoint
                  /\ settled' = targetSnapPoint
            /\ lastOp' = [op |-> "onHandleStateChange", state |-> state,
                          velocityY |-> velocityY]
       ELSE \* the event's translation and velocity are not read
            /\ translationY = 0 /\ velocityY = 0
            /\ lastOp' = [op |-> "onHandleStateChange", state |-> state]
            /\ UNCHANGED <<isDragging, lastGesture, animTo, currentSnapPoint, settled>>
    /\ UNCHANGED <<translateY, scrollOffset, selectedRoute, searchVars, waypointVars, formVars>>

HandleScrollNoDragCheck(y) ==
    /\ selectedRoute = {}
    /\ scrollOffset' = y
    /\ IF y > 0 /\ currentSnapPoint = Collapsed
       THEN animTo' = {Mid} /\ currentSnapPoint' = Mid /\ settled' = Mid
       ELSE IF y = 0 /\ currentSnapPoint # Collapsed
       THEN /\ animTo' = {Collapsed}
            /\ currentSnapPoint' = Collapsed
            /\ settled' = Collapsed
       ELSE UNCHANGED <<animTo, currentSnapPoint, settled>>
    /\ lastOp' = [op |-> "handleScroll", y |-> y]
    /\ UNCHANGED <<translateY, lastGesture, isDragging, selectedRoute, gestureState,
                   searchVars, waypointVars, formVars>>

\* handleScroll of the route list inside the panel
HandleScroll(y) ==
    /\ selectedRoute = {}
    /\ IF isDragging
       THEN UNCHANGED <<scrollOffset, animTo, currentSnapPoint, settled>>
       ELSE /\ scrollOffset' = y
            /\ IF y > 0 /\ currentSnapPoint = Collapsed
               THEN animTo' = {Mid} /\ currentSnapPoint' = Mid /\ settled' = Mid
               ELSE IF y = 0 /\ currentSnapPoint # Collapsed
               THEN /\ animTo' = {Collapsed}
                    /\ currentSnapPoint' = Collapsed
                    /\ settled' = Collapsed
               ELSE UNCHANGED <<animTo, currentSnapPoint, settled>>
    /\ lastOp' = [op |-> "handleScroll", y |-> y]
    /\ UNCHANGED <<translateY, lastGesture, isDragging, selectedRoute, gestureState,
                   searchVars, waypointVars, formVars>>

\* the spring started by snapTo comes to rest
SpringSettle ==
    /\ animTo # {}
    /\ translateY' \in animTo
    /\ animTo' = {}
    /\ lastOp' = [op |-> "springSettle"]
    /\ UNCHANGED <<currentSnapPoint, lastGesture, scrollOffset, isDragging,
                   selectedRoute, gestureState, settled, searchVars, waypointVars, formVars>>

HandleMarkerPressKeepOffset(route) ==
    /\ selectedRoute' = {route}
    /\ gestureState' = "UNDETERMINED"
    /\ lastOp' = [op |-> "handleMarkerPress", route |-> route]
    /\ UNCHANGED <<translateY, animTo, settled, currentSnapPoint, lastGesture,
                   scrollOffset, isDragging, searchVars, waypointVars, formVars>>

\* handleMarkerPress: the preview card replaces the panel, which is unmounted
\* together with its gesture handler
HandleMarkerPress(route) ==
    /\ selectedRoute' = {route}
    /\ translateY' = Collapsed
    /\ animTo' = {}
    /\ gestureState' = "UNDETERMINED"
    /\ settled' = Collapsed
    /\ lastOp' = [op |-> "handleMarkerPress", route |-> route]
    /\ UNCHANGED <<currentSnapPoint, lastGesture, scrollOffset, isDragging,
                   searchVars, waypointVars, formVars>>

\* handleMapPress (map screen): tap on the map background
HandleMapPressMap ==
    /\ IF selectedRoute # {}
       THEN /\ selectedRoute' = {}
            /\ translateY' = Collapsed
            /\ animTo' = {}
            /\ settled' = Collapsed
       ELSE UNCHANGED <<selectedRoute, translateY, animTo, settled>>
    /\ lastOp' = [op |-> "handleMapPress", hadSelection |-> selectedRoute # {}]
    /\ UNCHANGED <<currentSnapPoint, lastGesture, scrollOffset, isDragging,
                   gestureState, searchVars, waypointVars, formVars>>

\* RoutePreviewCard onPress: setSelectedRoute(null)
PreviewCardPress ==
    /\ selectedRoute # {}
    /\ selectedRoute' = {}
    /\ lastOp' = [op |-> "previewCardPress"]
    /\ UNCHANGED <<translateY, animTo, currentSnapPoint, lastGesture, scrollOffset,
                   isDragging, gestureState, settled, searchVars, waypointVars, formVars>>

InitPanel ==
    /\ translateY = Collapsed
    /\ animTo = {}
    /\ currentSnapPoint = Collapsed
    /\ lastGesture = Collapsed
    /\ scrollOffset = 0
    /\ isDragging = FALSE
    /\ selectedRoute = {}
    /\ gestureState = "UNDETERMINED"
    /\ settled = Collapsed

NextPanel ==
    \/ \E t \in Translations : OnGestureEvent(t)
    \/ \E st \in GestureStates \ {"END"} : OnHandleStateChange(st, 0, 0)
    \/ \E t \in Translations, v \in Velocities : OnHandleStateChange("END", t, v)
    \/ \E y \in ScrollOffsets : HandleScroll(y)
    \/ SpringSettle
    \/ \E r \in Routes : HandleMarkerPress(r)
    \/ HandleMapPressMap
    \/ PreviewCardPress

(***************************************************************************)
(* Mount of the map screen: loadRoutes and the location request            *)
(***************************************************************************)
\* location.coords of the device
DeviceLocation == [latitude |-> 1, longitude |-> 1]

\* what fetchRoutes() resolves to: the routes with their first waypoints
FetchedRoutes ==
    << [id |-> "r1", waypoint_details |-> <<[lat |-> 0, lng |-> 0]>>],
       [id |-> "r2", waypoint_details |-> <<[lat |-> 2000, lng |-> 1000]>>] >>

MinOf(S) == CHOOSE x \in S : \A y \in S : x <= y
MaxIn(S) == CHOOSE x \in S : \A y \in S : y <= x

\* getMapRegion: the bounding box of every waypoint of every route, padded by a
\* tenth, with spans of 0.01 at least; {} is null
GetMapRegion(rs) ==
    LET allWaypoints ==
            UNION { { rs[i].waypoint_details[j] : j \in 1..Len(rs[i].waypoint_details) } :
                        i \in 1..Len(rs) }
        latitudes == { wp.lat : wp \in allWaypoints }
        longitudes == { wp.lng : wp \in allWaypoints }
        latSpan == MaxIn(latitudes) - MinOf(latitudes)
        lngSpan == MaxIn(longitudes) - MinOf(longitudes)
    IN IF Len(rs) = 0 \/ allWaypoints = {} THEN {}
       ELSE { [latitude |-> (MinOf(latitudes) + MaxIn(latitudes)) \div 2,
               longitude |-> (MinOf(longitudes) + MaxIn(longitudes)) \div 2,
               latitudeDelta |-> Max(latSpan + latSpan \div 10, 100),
               longitudeDelta |-> Max(lngSpan + lngSpan \div 10, 100)] }

\* both mount effects have run to their end, no locate-me is in flight
MapSettled == [load |-> "done", locate |-> "done", locateMe |-> FALSE]

\* the mount: loadRoutes awaits fetchRoutes(), the location effect awaits
\* requestForegroundPermissionsAsync()
MapMounting == [load |-> "fetch", locate |-> "request", locateMe |-> FALSE]

\* loadRoutes: const data = await fetchRoutes(); setRoutes(data).  There is no
\* try / catch: a rejection escapes the effect.  The new routes rerun the
\* region effect: setRegion(getMapRegion) unless it is null.
LoadRoutesReturn(outcome) ==
    /\ mapMount.load = "fetch"
    /\ mapMount' = [mapMount EXCEPT !.load = "done"]
    /\ IF outcome = "ok"
       THEN /\ routes' = FetchedRoutes
            /\ region' = IF GetMapRegion(FetchedRoutes) = {} THEN region
                         ELSE CHOOSE r \in GetMapRegion(FetchedRoutes) : TRUE
            /\ UNCHANGED unhandled
       ELSE /\ unhandled' = unhandled \cup {"fetchRoutes"}
            /\ UNCHANGED <<routes, region>>
    /\ lastOp' = [op |-> "loadRoutesReturn", outcome |-> outcome]
    /\ UNCHANGED <<isMapReady, taps, prompts, uploadVars, waypoints, searchVars, panelVars,
                   isEditing, userId, formName, media, exercises, loading, error,
                   navigated, db, create, backendLog, written, loadPc, seed, untouched>>

\* the location effect: requestForegroundPermissionsAsync() returns a status or
\* rejects.  There is no try / catch: a rejection escapes the effect and
\* setIsMapReady(true) is not reached.
LocationPermissionReturn(outcome) ==
    /\ mapMount.locate = "request"
    /\ mapMount' = [mapMount EXCEPT
                        !.locate = IF outcome = "granted" THEN "position" ELSE "done"]
    /\ isMapReady' = IF outcome = "denied" THEN TRUE ELSE isMapReady
    /\ unhandled' = IF outcome = "throws"
                    THEN unhandled \cup {"requestForegroundPermissionsAsync"}
                    ELSE unhandled
    /\ lastOp' = [op |-> "locationPermissionReturn", outcome |-> outcome]
    /\ UNCHANGED <<routes, taps, prompts, uploadVars, waypointVars, searchVars, panelVars,
                   isEditing, userId, formName, media, exercises, loading, error,
                   navigated, db, create, backendLog, written, loadPc, seed, untouched>>

\* the location effect: getCurrentPositionAsync() returns or rejects
LocationPositionReturn(outcome) ==
    /\ mapMount.locate = "position"
    /\ mapMount' = [mapMount EXCEPT !.locate = "done"]
    /\ IF outcome = "ok"
       THEN /\ region' = [region EXCEPT !.latitude = DeviceLocation.latitude,
                                        !.longitude = DeviceLocation.longitude]
            /\ isMapReady' = TRUE
            /\ UNCHANGED unhandled
       ELSE /\ unhandled' = unhandled \cup {"getCurrentPositionAsync"}
            /\ UNCHANGED <<region, isMapReady>>
    /\ lastOp' = [op |-> "locationPositionReturn", outcome |-> outcome]
    /\ UNCHANGED <<routes, taps, prompts, uploadVars, waypoints, searchVars, panelVars,
                   isEditing, userId, formName, media, exercises, loading, error,
                   navigated, db, create, backendLog, written, loadPc, seed, untouched>>

\* handleLocateMe (map screen) up to its await.  The calls in flight are alike,
\* one is kept.
HandleLocateMeMap ==
    /\ mapMount' = [mapMount EXCEPT !.locateMe = TRUE]
    /\ lastOp' = [op |-> "handleLocateMeMap"]
    /\ UNCHANGED <<routes, isMapReady, unhandled, taps, prompts, uploadVars,
                   waypointVars, searchVars, panelVars,
                   isEditing, userId, formName, media, exercises, loading, error,
                   navigated, db, create, backendLog, written, loadPc, seed, untouched>>

\* handleLocateMe (map screen): getCurrentPositionAsync() returns, or rejects
\* into the catch, which logs
LocateMeMapReturn(outcome) ==
    /\ mapMount.locateMe
    /\ mapMount' = [mapMount EXCEPT !.locateMe = FALSE]
    /\ region' = IF outcome = "ok"
                 THEN [latitude |-> DeviceLocation.latitude,
                       longitude |-> DeviceLocation.longitude,
                       latitudeDelta |-> 100, longitudeDelta |-> 100]
                 ELSE region
    /\ lastOp' = [op |-> "locateMeMapReturn", outcome |-> outcome]
    /\ UNCHANGED <<routes, isMapReady, unhandled, taps, prompts, uploadVars,
                   waypoints, searchVars, panelVars,
                   isEditing, userId, formName, media, exercises, loading, error,
                   navigated, db, create, backendLog, written, loadPc, seed, untouched>>

\* the map screen after its mount effects: the routes are there
InitMapSettled ==
    /\ routes = FetchedRoutes
    /\ isMapReady = TRUE
    /\ mapMount = MapSettled
    /\ unhandled = {}

(***************************************************************************)
(* Form / media aggregator: handleCreate and uploadMediaInBackground       *)
(***************************************************************************)
\* String.prototype.startsWith
StartsWith(str, prefix) ==
    Len(str) >= Len(prefix) /\ SubSeq(str, 1, Len(prefix)) = prefix

Http == <<"h", "t", "t", "p">>

\* uris of media items: two stored attachments, a picked file, a YouTube link
UriA == Http \o <<":", "a">>
UriB == Http \o <<":", "b">>
UriFile == <<"f", "i", "l", "e", ":", "n">>
UriYoutube == Http \o <<"s", ":", "y">>

\* items the user adds in the session
NewMedia ==
    { [type |-> "image", uri |-> UriFile], [type |-> "youtube", uri |-> UriYoutube] }

\* number of items of the local list added in the session
AddedCount(localMedia) == Len(SelectSeq(localMedia, LAMBDA m : m \in NewMedia))

\* media_attachments stored on the route before the edit session
StoredAttachmentLists ==
    { <<>>, <<[type |-> "image", url |-> UriA]>>,
      <<[type |-> "image", url |-> UriA], [type |-> "video", url |-> UriB]>> }

Names == { <<>>, <<" ", "\t">>, <<"R">> }
Users == { <<>>, <<"u", "1">> }

Digit(n) == <<"0", "1", "2", "3", "4", "5", "6", "7", "8", "9">>[n + 1]

RECURSIVE NumberToString(_)
\* template-literal conversion of a non-negative integer
NumberToString(n) == IF n < 10 THEN <<Digit(n)>> ELSE NumberToString(n \div 10) \o <<Digit(n % 10)>>

\* waypoints.map((wp, index) => ({lat, lng, title: wp.title || `Waypoint ${index + 1}`,
\*                                description}))
WaypointDetails(wps) ==
    [index \in 1..Len(wps) |->
        [lat |-> wps[index].latitude,
         lng |-> wps[index].longitude,
         title |-> IF wps[index].title # <<>> THEN wps[index].title
                   ELSE <<"W", "a", "y", "p", "o", "i", "n", "t", " ">> \o NumberToString(index),
         description |-> wps[index].description]]

\* media item -> { type, url: item.uri, description }
ToAttachment(item) == [type |-> item.type, url |-> item.uri]

Includes(list, x) == \E i \in 1..Len(list) : list[i] = x

ReconcileMediaKeepAll(existingMedia, localMedia) ==
    LET existingMediaUrls == [i \in 1..Len(existingMedia) |-> existingMedia[i].url]
        added == SelectSeq(localMedia,
                     LAMBDA m : ~Includes(existingMediaUrls, m.uri)
                                /\ ~StartsWith(m.uri, Http))
    IN existingMedia \o [i \in 1..Len(added) |-> ToAttachment(added[i])]

\* edit mode: existing attachments still referenced, then the new local media
ReconcileMedia(existingMedia, localMedia) ==
    LET existingMediaUrls == [i \in 1..Len(existingMedia) |-> existingMedia[i].url]
        currentMediaUrls == [i \in 1..Len(localMedia) |-> localMedia[i].uri]
        kept == SelectSeq(existingMedia, LAMBDA m : Includes(currentMediaUrls, m.url))
        added == SelectSeq(localMedia,
                     LAMBDA m : ~Includes(existingMediaUrls, m.uri)
                                /\ ~StartsWith(m.uri, Http))
    IN kept \o [i \in 1..Len(added) |-> ToAttachment(added[i])]

\* create mode: all media
AllMedia(localMedia) == [i \in 1..Len(localMedia) |-> ToAttachment(localMedia[i])]

\* media.filter(m => !m.uri.startsWith('http'))
NewMediaItems(localMedia) == SelectSeq(localMedia, LAMBDA m : ~StartsWith(m.uri, Http))

\* exercises.length > 0 ? JSON.stringify(exercises) : ''
SuggestedExercises(exs) == IF Len(exs) > 0 THEN <<"json", exs>> ELSE <<>>

\* baseRouteData (the fields that are not copied unchanged from the form)
BaseRouteData(c, mediaToUpdate) ==
    [name |-> c.name,
     creator_id |-> c.user,
     waypoint_details |-> WaypointDetails(c.waypoints),
     suggested_exercises |-> SuggestedExercises(c.exercises),
     media_attachments |-> mediaToUpdate]

\* supabase.storage.getPublicUrl(filePath) of the k-th uploaded file
PublicUrl(k) == Http \o <<"s", ":", "u">> \o NumberToString(k)

\* no row yet.  The exercises column is one this screen reads (loadRouteData)
\* and never writes: {} is null.
NoRow == [exists |-> FALSE, name |-> <<>>, creator_id |-> <<>>,
          waypoint_details |-> <<>>, suggested_exercises |-> <<>>,
          media_attachments |-> <<>>, exercises |-> {}]

Idle == [pc |-> "idle"]

CreateRejectedNameOnly(user, name) == IsBlank(name)

\* if (!user?.id) return; if (!formData.name.trim()) return;
CreateRejected(user, name) == user = <<>> \/ IsBlank(name)

Mounted == ~navigated

\* handleCreate up to its first await.  One submission runs at a time.
HandleCreate ==
    /\ Mounted
    /\ create.pc = "idle"
    /\ IF CreateRejected(userId, formName)
       THEN \* Alert.alert(...); return
            UNCHANGED <<loading, error, create, backendLog>>
       ELSE /\ Len(SelectSeq(backendLog, LAMBDA c : c \in {"insert", "update"})) < MaxSubmits
            /\ loading' = TRUE
            /\ error' = <<>>
            /\ LET closure == [name |-> formName, user |-> userId,
                               waypoints |-> waypoints, media |-> media,
                               exercises |-> exercises]
               IN IF isEditing
                  THEN /\ create' = [pc |-> "readExisting", c |-> closure]
                       /\ backendLog' = Append(backendLog, "select media_attachments")
                  ELSE /\ create' = [pc |-> "write", c |-> closure,
                                     data |-> BaseRouteData(closure, AllMedia(media))]
                       /\ backendLog' = Append(backendLog, "insert")
    /\ lastOp' = [op |-> "handleCreate"]
    /\ UNCHANGED <<isEditing, userId, formName, media, exercises, navigated, db,
                   written, mountVars,
                   searchVars, waypointVars, panelVars>>

\* edit mode: the read of the existing attachments returns (data is null
\* when the read failed), and the update is issued
ReadExistingReturn(ok) ==
    /\ create.pc = "readExisting"
    /\ LET existingMedia == IF ok /\ db.exists THEN db.media_attachments ELSE <<>>
       IN create' = [pc |-> "write", c |-> create.c,
                     data |-> BaseRouteData(create.c,
                                  ReconcileMedia(existingMedia, create.c.media))]
    /\ backendLog' = Append(backendLog, "update")
    /\ lastOp' = [op |-> "readExistingReturn", ok |-> ok]
    /\ UNCHANGED <<isEditing, userId, formName, media, exercises, loading, error,
                   navigated, db, written, mountVars,
                   searchVars, waypointVars, panelVars>>

CreateFailedKeepsLoading ==
    /\ error' = <<"F", "a", "i", "l", "e", "d">>
    /\ loading' = loading
    /\ create' = Idle

\* catch (err) of handleCreate
CreateFailed ==
    /\ error' = <<"F", "a", "i", "l", "e", "d">>
    /\ loading' = FALSE
    /\ create' = Idle

\* setLoading(false); navigation.goBack().  In edit mode the screen now on top
\* of the navigation stack is then marked for refresh, which touches no state
\* of this screen.
CreateDone ==
    /\ loading' = FALSE
    /\ navigated' = TRUE
    /\ create' = Idle

\* the insert / update returns; on success analytics is awaited next
WriteReturn(ok) ==
    /\ create.pc = "write"
    /\ IF ok
       THEN /\ db' = create.data @@ [exists |-> TRUE, exercises |-> db.exercises]
            /\ create' = [pc |-> "track", c |-> create.c]
            /\ UNCHANGED <<error, loading>>
       ELSE /\ CreateFailed
            /\ UNCHANGED db
    /\ written' = IF ok THEN {create.c} ELSE written
    /\ lastOp' = [op |-> "writeReturn", ok |-> ok]
    /\ UNCHANGED <<isEditing, userId, formName, media, exercises, navigated,
                   backendLog, mountVars,
                   searchVars, waypointVars, panelVars>>

\* AppAnalytics.track... returns; then the upload of new media starts, if any
TrackReturn(ok) ==
    /\ create.pc = "track"
    /\ IF ~ok
       THEN CreateFailed /\ UNCHANGED <<navigated, backendLog>>
       ELSE IF Len(create.c.media) > 0 /\ NewMediaItems(create.c.media) # <<>>
       THEN /\ create' = [pc |-> "storageUpload", c |-> create.c,
                          items |-> NewMediaItems(create.c.media), k |-> 1]
            /\ backendLog' = Append(backendLog, "storage upload")
            /\ UNCHANGED <<loading, error, navigated>>
       ELSE CreateDone /\ UNCHANGED <<error, backendLog>>
    /\ lastOp' = [op |-> "trackReturn", ok |-> ok]
    /\ UNCHANGED <<isEditing, userId, formName, media, exercises, db,
                   written, mountVars,
                   searchVars, waypointVars, panelVars>>

StorageUploadReturnRethrows(ok) ==
    /\ create.pc = "storageUpload"
    /\ IF ok
       THEN /\ create' = [create EXCEPT !.pc = "readAttachments"]
            /\ backendLog' = Append(backendLog, "select media_attachments")
            /\ UNCHANGED <<loading, navigated, error>>
       ELSE CreateFailed /\ UNCHANGED <<backendLog, navigated>>
    /\ lastOp' = [op |-> "storageUploadReturn", ok |-> ok]
    /\ UNCHANGED <<isEditing, userId, formName, media, exercises, db,
                   written, mountVars,
                   searchVars, waypointVars, panelVars>>

\* uploadMediaInBackground: storage upload of item k returns
StorageUploadReturn(ok) ==
    /\ create.pc = "storageUpload"
    /\ IF ok
       THEN /\ create' = [create EXCEPT !.pc = "readAttachments"]
            /\ backendLog' = Append(backendLog, "select media_attachments")
            /\ UNCHANGED <<loading, navigated>>
       ELSE \* throw uploadError: logged by handleCreate, navigation continues
            CreateDone /\ UNCHANGED backendLog
    /\ lastOp' = [op |-> "storageUploadReturn", ok |-> ok]
    /\ UNCHANGED <<isEditing, userId, formName, media, exercises, error, db,
                   written, mountVars,
                   searchVars, waypointVars, panelVars>>

\* uploadMediaInBackground: the read of media_attachments returns
ReadAttachmentsReturn(ok) ==
    /\ create.pc = "readAttachments"
    /\ LET currentAttachments == IF ok /\ db.exists THEN db.media_attachments ELSE <<>>
           item == create.items[create.k]
       IN create' = [pc |-> "writeAttachments", c |-> create.c,
                      items |-> create.items, k |-> create.k,
                      updatedAttachments |->
                          Append(currentAttachments,
                                 [type |-> item.type, url |-> PublicUrl(create.k)])]
    /\ backendLog' = Append(backendLog, "update media_attachments")
    /\ lastOp' = [op |-> "readAttachmentsReturn", ok |-> ok]
    /\ UNCHANGED <<isEditing, userId, formName, media, exercises, loading, error,
                   navigated, db, written, mountVars,
                   searchVars, waypointVars, panelVars>>

\* the entry uploadMediaInBackground appends for the item it is at
UploadedEntry == create.updatedAttachments[Len(create.updatedAttachments)]

WriteAttachmentsReturnVersionChecked(ok) ==
    /\ create.pc = "writeAttachments"
    /\ IF ok
       THEN /\ db' = [db EXCEPT !.media_attachments =
                         IF db.media_attachments =
                                SubSeq(create.updatedAttachments, 1,
                                       Len(create.updatedAttachments) - 1)
                         THEN create.updatedAttachments
                         ELSE Append(db.media_attachments, UploadedEntry)]
            /\ IF create.k < Len(create.items)
               THEN /\ create' = [pc |-> "storageUpload", c |-> create.c,
                                  items |-> create.items, k |-> create.k + 1]
                    /\ backendLog' = Append(backendLog, "storage upload")
                    /\ UNCHANGED <<loading, navigated>>
               ELSE CreateDone /\ UNCHANGED backendLog
       ELSE CreateDone /\ UNCHANGED <<db, backendLog>>
    /\ appended' = IF ok THEN appended \cup {UploadedEntry} ELSE appended
    /\ lastOp' = [op |-> "writeAttachmentsReturn", ok |-> ok]
    /\ UNCHANGED <<isEditing, userId, formName, media, exercises, error,
                   written, loadPc, seed, untouched, taps, prompts, other,
                   routes, isMapReady, mapMount, unhandled,
                   searchVars, waypointVars, panelVars>>

\* uploadMediaInBackground: the update of media_attachments returns
WriteAttachmentsReturn(ok) ==
    /\ create.pc = "writeAttachments"
    /\ IF ok
       THEN /\ db' = [db EXCEPT !.media_attachments = create.updatedAttachments]
            /\ IF create.k < Len(create.items)
               THEN /\ create' = [pc |-> "storageUpload", c |-> create.c,
                                  items |-> create.items, k |-> create.k + 1]
                    /\ backendLog' = Append(backendLog, "storage upload")
                    /\ UNCHANGED <<loading, navigated>>
               ELSE CreateDone /\ UNCHANGED backendLog
       ELSE \* throw updateError
            CreateDone /\ UNCHANGED <<db, backendLog>>
    /\ appended' = IF ok THEN appended \cup {UploadedEntry} ELSE appended
    /\ lastOp' = [op |-> "writeAttachmentsReturn", ok |-> ok]
    /\ UNCHANGED <<isEditing, userId, formName, media, exercises, error,
                   written, loadPc, seed, untouched, taps, prompts, other,
                   routes, isMapReady, mapMount, unhandled,
                   searchVars, waypointVars, panelVars>>

\* a second writer of the row (an overlapping upload batch of another session,
\* another editor): the same read-modify-write of media_attachments
OtherIdle == [pc |-> "idle", writes |-> 0]

\* the attachment the second writer's n-th write appends
OtherEntry(n) == [type |-> "image", url |-> Http \o <<"s", ":", "o">> \o NumberToString(n)]

\* the second writer reads media_attachments of the row
OtherReadAttachments ==
    /\ db.exists
    /\ other.pc = "idle"
    /\ other.writes < MaxOtherWrites
    /\ other' = [pc |-> "write", writes |-> other.writes,
                 updatedAttachments |->
                     Append(db.media_attachments, OtherEntry(other.writes + 1))]
    /\ lastOp' = [op |-> "otherReadAttachments"]
    /\ UNCHANGED <<isEditing, userId, formName, media, exercises, loading, error,
                   navigated, db, create, backendLog, written, loadPc, seed,
                   untouched, taps, prompts, appended,
                   routes, isMapReady, mapMount, unhandled,
                   searchVars, waypointVars, panelVars>>

\* the second writer writes back what it read plus its entry
OtherWriteAttachments ==
    /\ other.pc = "write"
    /\ db' = [db EXCEPT !.media_attachments = other.updatedAttachments]
    /\ appended' = appended \cup {OtherEntry(other.writes + 1)}
    /\ other' = [pc |-> "idle", writes |-> other.writes + 1]
    /\ lastOp' = [op |-> "otherWriteAttachments"]
    /\ UNCHANGED <<isEditing, userId, formName, media, exercises, loading, error,
                   navigated, create, backendLog, written, loadPc, seed,
                   untouched, taps, prompts,
                   routes, isMapReady, mapMount, unhandled,
                   searchVars, waypointVars, panelVars>>

\* FormField onChangeText: setFormData(prev => ({...prev, name: text}))
SetName(text) ==
    /\ Mounted
    /\ formName' = text
    /\ lastOp' = [op |-> "setName"]
    /\ UNCHANGED <<isEditing, userId, media, exercises, loading, error, navigated,
                   db, create, backendLog, written, mountVars,
                   searchVars, waypointVars, panelVars>>

\* handleAddMedia: setMedia(prev => [...prev, newMediaItem])
HandleAddMedia(newMedia) ==
    /\ Mounted
    /\ media' = Append(media, newMedia)
    /\ lastOp' = [op |-> "handleAddMedia"]
    /\ UNCHANGED <<isEditing, userId, formName, exercises, loading, error, navigated,
                   db, create, backendLog, written, mountVars,
                   searchVars, waypointVars, panelVars>>

\* handleRemoveMedia: setMedia(prev => prev.filter((_, i) => i !== index))
HandleRemoveMedia(index) ==
    /\ Mounted
    /\ media' = SelectIndices(media, (1..Len(media)) \ {index + 1}, 1)
    /\ lastOp' = [op |-> "handleRemoveMedia"]
    /\ UNCHANGED <<isEditing, userId, formName, exercises, loading, error, navigated,
                   db, create, backendLog, written, mountVars,
                   searchVars, waypointVars, panelVars>>

\* waypoints the collector has gathered by search selection: one titled, one
\* whose address had no street, city or country
GatheredWaypoints ==
    << [latitude |-> 0, longitude |-> 1, title |-> <<"S", "t">>,
        description |-> "Searched location"],
       [latitude |-> 1, longitude |-> 0, title |-> <<>>,
        description |-> "Searched location"] >>

ExerciseTitles == { <<>>, <<"E">> }

\* the id of a new exercise (Date.now().toString()): one not in use
NewExerciseId(exs) ==
    CHOOSE n \in 1..(Len(exs) + 1) : \A i \in 1..Len(exs) : exs[i].id # n

\* handleAddExercise: if (!newExercise.title) return; setExercises([...exercises, {...}])
HandleAddExercise(title) ==
    /\ Mounted
    /\ exercises' = IF title = <<>> THEN exercises
                    ELSE Append(exercises, [id |-> NewExerciseId(exercises),
                                            title |-> title])
    /\ untouched' = (untouched /\ title = <<>>)
    /\ lastOp' = [op |-> "handleAddExercise"]
    /\ UNCHANGED <<isEditing, userId, formName, media, loading, error, navigated,
                   db, create, backendLog, written, loadPc, seed, asyncVars,
                   searchVars, waypointVars, panelVars>>

\* handleRemoveExercise: setExercises(exercises.filter(ex => ex.id !== id))
HandleRemoveExercise(id) ==
    /\ Mounted
    /\ exercises' = SelectSeq(exercises, LAMBDA ex : ex.id # id)
    /\ untouched' = FALSE
    /\ lastOp' = [op |-> "handleRemoveExercise"]
    /\ UNCHANGED <<isEditing, userId, formName, media, loading, error, navigated,
                   db, create, backendLog, written, loadPc, seed, asyncVars,
                   searchVars, waypointVars, panelVars>>

\* route.waypoint_details.map(wp => ({latitude: wp.lat, longitude: wp.lng, title, description}))
LoadedWaypoints(details) ==
    [i \in 1..Len(details) |->
        [latitude |-> details[i].lat, longitude |-> details[i].lng,
         title |-> details[i].title, description |-> details[i].description]]

\* route.media_attachments.map(m => ({type: m.type, uri: m.url, ...}))
LoadedMedia(attachments) ==
    [i \in 1..Len(attachments) |->
        [type |-> attachments[i].type, uri |-> attachments[i].url]]

\* loadRouteData: the read of the row returns (ok = FALSE: with an error)
LoadRouteData(ok) ==
    /\ Mounted
    /\ loadPc = "pending"
    /\ loadPc' = "done"
    /\ untouched' = (ok /\ db.exists /\ create.pc = "idle")
    /\ IF ok /\ db.exists
       THEN /\ formName' = db.name
            /\ waypoints' = LoadedWaypoints(db.waypoint_details)
            /\ IF Len(db.waypoint_details) > 0
               THEN /\ region' = [latitude |-> db.waypoint_details[1].lat,
                                  longitude |-> db.waypoint_details[1].lng,
                                  latitudeDelta |-> 200, longitudeDelta |-> 200]
                    /\ searchQuery' = db.waypoint_details[1].title
               ELSE UNCHANGED <<region, searchQuery>>
            /\ exercises' = IF db.exercises # {} THEN CHOOSE x \in db.exercises : TRUE
                            ELSE exercises
            /\ media' = LoadedMedia(db.media_attachments)
            /\ UNCHANGED error
       ELSE /\ error' = IF ok THEN error ELSE <<"L", "o", "a", "d">>
            /\ UNCHANGED <<formName, waypoints, region, searchQuery, exercises, media>>
    /\ lastOp' = [op |-> "loadRouteData", ok |-> ok]
    /\ UNCHANGED <<isEditing, userId, loading, navigated, db, create, backendLog,
                   written, seed, asyncVars, searchResults, showSearchResults,
                   searchTimeout, timers, lookups, now, calls, geocodeLog, completed,
                   resultsFrom, lastHits, panelVars>>

\* the seeding effect is not running: edit mode, or it is over
SeedOff == [pc |-> "off"]

\* the saved route is opened for editing: a new mount of the screen with
\* route.params.routeId set
Reopen ==
    /\ navigated
    /\ db.exists
    /\ isEditing' = TRUE
    /\ formName' = <<>>
    /\ media' = <<>>
    /\ exercises' = <<>>
    /\ loading' = FALSE
    /\ error' = <<>>
    /\ navigated' = FALSE
    /\ create' = Idle
    /\ loadPc' = "pending"
    /\ seed' = SeedOff
    /\ untouched' = FALSE
    /\ waypoints' = <<>>
    /\ region' = DefaultRegion
    /\ searchQuery' = <<>>
    /\ searchResults' = <<>>
    /\ showSearchResults' = FALSE
    /\ searchTimeout' = {}
    /\ lastOp' = [op |-> "reopen"]
    /\ UNCHANGED <<userId, db, backendLog, written, timers, lookups, now, calls,
                   geocodeLog, completed, resultsFrom, lastHits, panelVars, asyncVars>>

\* rows stored before the session: their attachments, exercises and waypoints
StoredRows ==
    { [NoRow EXCEPT !.exists = TRUE, !.name = <<"R">>, !.creator_id = <<"u", "1">>,
                    !.media_attachments = stored,
                    !.suggested_exercises = SuggestedExercises(exs),
                    !.waypoint_details = WaypointDetails(wps)] :
        stored \in StoredAttachmentLists,
        exs \in { <<>>, <<[id |-> 1, title |-> <<"E">>]>> },
        wps \in { <<>>, GatheredWaypoints } }

\* the state after construction: an empty form; in edit mode the row exists
\* and loadRouteData is in flight
InitForm ==
    /\ isEditing \in BOOLEAN
    /\ userId \in Users
    /\ formName = <<>>
    /\ media = <<>>
    /\ exercises = <<>>
    /\ loading = FALSE
    /\ error = <<>>
    /\ navigated = FALSE
    /\ create = Idle
    /\ backendLog = <<>>
    /\ written = {}
    /\ untouched = FALSE
    /\ taps = {} /\ prompts = {} /\ appended = {}
    /\ other = OtherIdle
    /\ IF isEditing
       THEN db \in StoredRows /\ loadPc = "pending"
       ELSE db = NoRow /\ loadPc = "none"

NextForm ==
    \/ HandleCreate
    \/ \E ok \in BOOLEAN : ReadExistingReturn(ok)
    \/ \E ok \in BOOLEAN : WriteReturn(ok)
    \/ \E ok \in BOOLEAN : TrackReturn(ok)
    \/ \E ok \in BOOLEAN : StorageUploadReturn(ok)
    \/ \E ok \in BOOLEAN : ReadAttachmentsReturn(ok)
    \/ \E ok \in BOOLEAN : WriteAttachmentsReturn(ok)
    \/ \E text \in Names : SetName(text)
    \/ \E m \in NewMedia : AddedCount(media) < MaxMedia /\ HandleAddMedia(m)
    \/ \E i \in 0..(MaxMedia + 1) : i < Len(media) /\ HandleRemoveMedia(i)
    \/ \E ok \in BOOLEAN : LoadRouteData(ok)

\* save, reopen for editing, save again: the waypoints and the exercises
NextRoundTrip ==
    \/ HandleCreate
    \/ \E ok \in BOOLEAN : ReadExistingReturn(ok)
    \/ \E ok \in BOOLEAN : WriteReturn(ok)
    \/ \E ok \in BOOLEAN : TrackReturn(ok)
    \/ SetName(<<"R">>)
    \/ \E title \in ExerciseTitles :
           Len(exercises) < MaxExercises /\ HandleAddExercise(title)
    \/ \E id \in 1..MaxExercises : HandleRemoveExercise(id)
    \/ \E ok \in BOOLEAN : LoadRouteData(ok)
    \/ Reopen

InitSearch ==
    /\ searchQuery = <<>>
    /\ searchResults = <<>>
    /\ showSearchResults = FALSE
    /\ searchTimeout = {}
    /\ timers = {}
    /\ lookups = {}
    /\ now = 0
    /\ calls = <<>>
    /\ geocodeLog = {}
    /\ completed = {}
    /\ resultsFrom = {}
    /\ lastHits = <<>>

\* what the geocoder answers in the debounce scenarios: nothing, or one place
FewHitLists == SeqsUpTo({[latitude |-> 0, longitude |-> 0]}, 1)

NextSearch ==
    \/ \E q \in Queries : Len(calls) < MaxCalls /\ HandleSearch(q)
    \/ Tick
    \/ \E t \in timers : TimerFire(t)
    \/ \E l \in lookups, hits \in FewHitLists : GeocodeReturn(l, hits)
    \/ \E l \in lookups, addrs \in SeqsUpTo({NoAddress}, 1) : ReverseReturn(l, addrs)
    \/ \E l \in lookups : LookupThrow(l)

\* one lookup, with every hit list and every address the service may return
NextLookup ==
    \/ \E q \in Queries : calls = <<>> /\ HandleSearch(q)
    \/ Tick
    \/ \E t \in timers : TimerFire(t)
    \/ \E l \in lookups, hits \in HitLists : GeocodeReturn(l, hits)
    \/ \E l \in lookups, addrs \in SeqsUpTo(Addresses, MaxHits) : ReverseReturn(l, addrs)
    \/ \E l \in lookups : LookupThrow(l)

\* the create flow, signed in, on both screens
Init ==
    /\ InitSearch
    /\ InitWaypoints
    /\ InitPanel
    /\ InitForm /\ ~isEditing /\ userId # <<>> /\ formName = <<>>
    /\ seed = SeedOff
    /\ InitMapSettled
    /\ lastOp = [op |-> "init"]

\* the form in create or edit mode, signed in or out, with the waypoints the
\* collector may have gathered
InitSubmit ==
    /\ InitSearch
    /\ InitPanel
    /\ InitForm
    /\ seed = SeedOff
    /\ InitMapSettled
    /\ db.suggested_exercises = <<>> /\ db.waypoint_details = <<>>
    /\ region = DefaultRegion
    /\ waypoints \in IF isEditing THEN { <<>> } ELSE { <<>>, GatheredWaypoints }
    /\ lastOp = [op |-> "init"]

SpecSearch == Init /\ [][NextSearch]_vars

SpecLookup == Init /\ [][NextLookup]_vars

SpecWaypoints == Init /\ [][NextWaypoints]_vars

SpecPanel == Init /\ [][NextPanel]_vars

\* the results a press is tried with: a full address, one without any part,
\* and a result that carries no coords
SelectInputs ==
    { Entry([street |-> <<"S", "t">>, city |-> <<>>, country |-> <<"S", "E">>],
            [latitude |-> 0, longitude |-> 1]),
      Entry(NoAddress, [latitude |-> 1, longitude |-> 0]),
      [street |-> <<"S", "t">>, city |-> <<>>, country |-> <<"S", "E">>] }

\* one search, then presses on results, on either screen
NextSelect ==
    \/ \E q \in Queries : calls = <<>> /\ HandleSearch(q)
    \/ Tick
    \/ \E t \in timers : TimerFire(t)
    \/ \E l \in lookups, hits \in FewHitLists : GeocodeReturn(l, hits)
    \/ \E l \in lookups, addrs \in SeqsUpTo(Addresses, 1) : ReverseReturn(l, addrs)
    \/ \E l \in lookups : LookupThrow(l)
    \/ \E r \in SelectInputs :
          Len(waypoints) < MaxWaypoints /\ HandleLocationSelect(r)
    \/ \E r \in SelectInputs : HandleLocationSelectMap(r)

SpecSelect == Init /\ [][NextSelect]_vars

SpecSubmit == InitSubmit /\ [][NextForm]_vars

\* a signed-in user, no media
InitRoundTrip ==
    /\ InitSearch
    /\ InitPanel
    /\ InitForm
    /\ seed = SeedOff
    /\ InitMapSettled
    /\ userId # <<>> /\ db.media_attachments = <<>>
    /\ region = DefaultRegion
    /\ waypoints \in IF isEditing THEN { <<>> } ELSE { <<>>, GatheredWaypoints }
    /\ lastOp = [op |-> "init"]

SpecRoundTrip == InitRoundTrip /\ [][NextRoundTrip]_vars

\* a second local file, picked from the library
UriFile2 == <<"f", "i", "l", "e", ":", "m">>

\* the files the user picks
PickedFiles ==
    { [type |-> "image", uri |-> UriFile], [type |-> "video", uri |-> UriFile2] }

\* a new route by a signed-in user
InitUpload ==
    /\ InitSearch
    /\ InitPanel
    /\ InitForm /\ ~isEditing /\ userId # <<>>
    /\ seed = SeedOff
    /\ InitMapSettled
    /\ region = DefaultRegion
    /\ waypoints = <<>>
    /\ lastOp = [op |-> "init"]

\* the save of a new route with picked files and the uploads that follow it,
\* next to a second writer of the row; the reads of the attachment list succeed
NextUpload ==
    \/ SetName(<<"R">>)
    \/ \E m \in PickedFiles : Len(media) < MaxPicked /\ HandleAddMedia(m)
    \/ HandleCreate
    \/ \E ok \in BOOLEAN : WriteReturn(ok)
    \/ \E ok \in BOOLEAN : TrackReturn(ok)
    \/ \E ok \in BOOLEAN : StorageUploadReturn(ok)
    \/ ReadAttachmentsReturn(TRUE)
    \/ \E ok \in BOOLEAN : WriteAttachmentsReturn(ok)
    \/ OtherReadAttachments
    \/ OtherWriteAttachments

SpecUpload == InitUpload /\ [][NextUpload]_vars

(***************************************************************************)
(* Picker and camera prompts: pickMedia, takePhoto, recordVideo            *)
(***************************************************************************)
PromptKinds == {"pickMedia", "takePhoto", "recordVideo"}

\* result.assets of the prompt, as media items: several from the library, one
\* photo from takePhoto, one video from recordVideo
PickedAssets(kind) ==
    IF kind = "takePhoto" THEN { <<[type |-> "image", uri |-> UriFile]>> }
    ELSE IF kind = "recordVideo" THEN { <<[type |-> "video", uri |-> UriFile2]>> }
    ELSE { <<[type |-> "image", uri |-> UriFile]>>,
           <<[type |-> "image", uri |-> UriFile], [type |-> "video", uri |-> UriFile2]>> }

NewPromptId ==
    MinOf({ n \in 1..(Cardinality(prompts) + 1) : \A q \in prompts : q.id # n })

\* pickMedia / takePhoto / recordVideo up to the permission request: the
\* handler closes over the media of the render it was called in
StartPrompt(kind) ==
    /\ Mounted
    /\ prompts' = prompts \cup { [id |-> NewPromptId, kind |-> kind,
                                   pc |-> "permission", media |-> media] }
    /\ lastOp' = [op |-> "startPrompt", kind |-> kind]
    /\ UNCHANGED <<taps, uploadVars, routes, isMapReady, mapMount, unhandled,
                   isEditing, userId, formName, media, exercises, loading, error,
                   navigated, db, create, backendLog, written, loadPc, seed, untouched,
                   searchVars, waypointVars, panelVars>>

\* the permission request of prompt q returns: granted opens the picker or the
\* camera; otherwise an alert, and the handler is over (a rejection is caught)
PromptPermissionReturn(q, outcome) ==
    /\ q \in prompts /\ q.pc = "permission"
    /\ prompts' = IF outcome = "granted"
                  THEN (prompts \ {q}) \cup { [q EXCEPT !.pc = "launch"] }
                  ELSE prompts \ {q}
    /\ lastOp' = [op |-> "promptPermissionReturn", outcome |-> outcome]
    /\ UNCHANGED <<taps, uploadVars, routes, isMapReady, mapMount, unhandled,
                   isEditing, userId, formName, media, exercises, loading, error,
                   navigated, db, create, backendLog, written, loadPc, seed, untouched,
                   searchVars, waypointVars, panelVars>>

\* the picker or the camera of prompt q returns assets (<<>>: cancelled, or a
\* rejection, which is caught): setMedia([...media, ...newMedia]) with the
\* media the handler closed over
PromptReturn(q, assets) ==
    /\ Mounted
    /\ q \in prompts /\ q.pc = "launch"
    /\ prompts' = prompts \ {q}
    /\ media' = IF assets = <<>> THEN media ELSE q.media \o assets
    /\ lastOp' = [op |-> "promptReturn", picked |-> assets]
    /\ UNCHANGED <<taps, uploadVars, routes, isMapReady, mapMount, unhandled,
                   isEditing, userId, formName, exercises, loading, error,
                   navigated, db, create, backendLog, written, loadPc, seed, untouched,
                   searchVars, waypointVars, panelVars>>

\* the form, signed in, in create or edit mode
InitPick ==
    /\ InitSearch
    /\ InitPanel
    /\ InitForm /\ userId # <<>>
    /\ db.suggested_exercises = <<>> /\ db.waypoint_details = <<>>
    /\ seed = SeedOff
    /\ InitMapSettled
    /\ region = DefaultRegion
    /\ waypoints = <<>>
    /\ lastOp = [op |-> "init"]

\* prompts, next to the carousel's additions and the load of the stored row
NextPick ==
    \/ \E kind \in PromptKinds :
          /\ Cardinality(prompts) < MaxPrompts
          /\ Len(media) < MaxPicked
          /\ StartPrompt(kind)
    \/ \E q \in prompts, outcome \in {"granted", "denied", "throws"} :
          PromptPermissionReturn(q, outcome)
    \/ \E q \in prompts :
          \E assets \in PickedAssets(q.kind) \cup {<<>>} : PromptReturn(q, assets)
    \/ \E m \in NewMedia : AddedCount(media) < MaxMedia /\ HandleAddMedia(m)
    \/ \E ok \in BOOLEAN : LoadRouteData(ok)

SpecPick == InitPick /\ [][NextPick]_vars

(***************************************************************************)
(* Map taps on the create-route screen: handleMapPress                     *)
(***************************************************************************)
\* a handle for the tap's pending promise: the first one not in use
NewTapId ==
    MinOf({ n \in 1..(Cardinality(taps) + 1) : \A t \in taps : t.id # n })

\* `Waypoint ${n}`
WaypointLabel(n) == <<"W", "a", "y", "p", "o", "i", "n", "t", " ">> \o NumberToString(n)

\* handleMapPress up to reverseGeocodeAsync(...).then: the callbacks close over
\* the tapped coordinate and the waypoints of the render the tap was made in
HandleMapPress(coordinate) ==
    /\ Mounted
    /\ taps' = taps \cup { [id |-> NewTapId, coordinate |-> coordinate,
                             length |-> Len(waypoints)] }
    /\ lastOp' = [op |-> "handleMapPress", coordinate |-> coordinate]
    /\ UNCHANGED <<prompts, uploadVars, routes, isMapReady, mapMount, unhandled,
                   isEditing, userId, formName, media, exercises, loading, error,
                   navigated, db, create, backendLog, written, loadPc, seed, untouched,
                   searchVars, waypointVars, panelVars>>

\* the reverse-geocode of tap t resolves with addrs (.then) or rejects (.catch)
MapPressReverseReturn(t, outcome, addrs) ==
    /\ Mounted
    /\ t \in taps
    /\ taps' = taps \ {t}
    /\ IF outcome = "ok"
       THEN LET title == IF addrs # <<>> THEN FormatTitle(addrs[1])
                         ELSE WaypointLabel(t.length + 1)
            IN /\ waypoints' = Append(waypoints,
                      [latitude |-> t.coordinate.latitude,
                       longitude |-> t.coordinate.longitude,
                       title |-> title, description |-> "Tapped location"])
               /\ searchQuery' = title
               /\ region' = [latitude |-> t.coordinate.latitude,
                             longitude |-> t.coordinate.longitude,
                             latitudeDelta |-> 100, longitudeDelta |-> 100]
       ELSE /\ waypoints' = Append(waypoints,
                      [latitude |-> t.coordinate.latitude,
                       longitude |-> t.coordinate.longitude,
                       title |-> WaypointLabel(t.length + 1),
                       description |-> "Tapped location"])
            /\ UNCHANGED <<searchQuery, region>>
    /\ lastOp' = [op |-> "mapPressReverseReturn", coordinate |-> t.coordinate,
                  found |-> (outcome = "ok" /\ addrs # <<>>)]
    /\ UNCHANGED <<prompts, uploadVars, routes, isMapReady, mapMount, unhandled,
                   isEditing, userId, formName, media, exercises, loading, error,
                   navigated, db, create, backendLog, written, loadPc, seed, untouched,
                   searchResults, showSearchResults, searchTimeout, timers, lookups,
                   now, calls, geocodeLog, completed, resultsFrom, lastHits, panelVars>>

\* handleMapPressWrapper, the onPress the screen gives its Map: empty
HandleMapPressWrapper ==
    /\ lastOp' = [op |-> "handleMapPressWrapper"]
    /\ UNCHANGED <<searchVars, waypointVars, panelVars, formVars>>

\* taps on the map of the create flow, several lookups in flight
NextTap ==
    \/ \E c \in Coords :
          Len(waypoints) + Cardinality(taps) < MaxWaypoints /\ HandleMapPress(c)
    \/ \E t \in taps, outcome \in {"ok", "throws"}, addrs \in SeqsUpTo(Addresses, 1) :
          MapPressReverseReturn(t, outcome, addrs)
    \/ HandleMapPressWrapper

SpecTap == Init /\ [][NextTap]_vars

(***************************************************************************)
(* Seeding from the device location on mount (CreateRouteScreen)           *)
(***************************************************************************)
SeedDone == [pc |-> "done"]

\* the effect as it starts on mount: nothing when editing; with the permission
\* it asks for the position, without it for the permission
SeedStart(editing, locationPermission) ==
    IF editing THEN SeedOff
    ELSE IF locationPermission THEN [pc |-> "position"]
    ELSE [pc |-> "request"]

SeedCatchKeepsRegion == UNCHANGED region

\* catch (err): setRegion(default region)
SeedCatch == region' = DefaultRegion

\* LocationContext: locationPermission after requestLocationPermission()
PermissionAfterRequest(outcome) == outcome = "granted"

\* requestLocationPermission() returns.  The effect goes on with the
\* locationPermission of its render, which is false; when the permission was
\* granted the context's locationPermission changes and the effect runs again.
SeedRequestReturn(outcome) ==
    /\ Mounted
    /\ seed.pc = "request"
    /\ seed' = IF PermissionAfterRequest(outcome) THEN [pc |-> "position"] ELSE SeedDone
    /\ IF outcome = "throws" THEN SeedCatch ELSE UNCHANGED region
    /\ lastOp' = [op |-> "seedRequestReturn", outcome |-> outcome]
    /\ UNCHANGED <<waypoints, searchVars, panelVars, isEditing, userId, formName,
                   media, exercises, loading, error, navigated, db, create,
                   backendLog, written, loadPc, untouched, asyncVars>>

\* getCurrentLocation() returns a position, returns null or throws
SeedPositionReturn(outcome) ==
    /\ Mounted
    /\ seed.pc = "position"
    /\ IF outcome = "ok"
       THEN /\ region' = [latitude |-> DeviceLocation.latitude,
                          longitude |-> DeviceLocation.longitude,
                          latitudeDelta |-> 200, longitudeDelta |-> 200]
            /\ seed' = [pc |-> "reverse"]
       ELSE /\ seed' = SeedDone
            /\ IF outcome = "throws" THEN SeedCatch ELSE UNCHANGED region
    /\ lastOp' = [op |-> "seedPositionReturn", outcome |-> outcome]
    /\ UNCHANGED <<waypoints, searchVars, panelVars, isEditing, userId, formName,
                   media, exercises, loading, error, navigated, db, create,
                   backendLog, written, loadPc, untouched, asyncVars>>

\* Location.reverseGeocodeAsync returns addrs (at most its first element is
\* used) or throws
SeedReverseReturn(outcome, addrs) ==
    /\ Mounted
    /\ seed.pc = "reverse"
    /\ seed' = SeedDone
    /\ IF outcome = "ok" /\ addrs # <<>>
       THEN /\ waypoints' = << [latitude |-> DeviceLocation.latitude,
                                longitude |-> DeviceLocation.longitude,
                                title |-> FormatTitle(addrs[1]),
                                description |-> "Current location"] >>
            /\ searchQuery' = FormatTitle(addrs[1])
            /\ UNCHANGED region
       ELSE /\ UNCHANGED <<waypoints, searchQuery>>
            /\ IF outcome = "throws" THEN SeedCatch ELSE UNCHANGED region
    /\ lastOp' = [op |-> "seedReverseReturn", outcome |-> outcome,
                  found |-> (outcome = "ok" /\ addrs # <<>>)]
    /\ UNCHANGED <<searchResults, showSearchResults, searchTimeout, timers, lookups,
                   now, calls, geocodeLog, completed, resultsFrom, lastHits,
                   panelVars, isEditing, userId, formName, media, exercises, loading,
                   error, navigated, db, create, backendLog, written, loadPc,
                   untouched, asyncVars>>

SeedOutcomes == {"ok", "throws"}

\* the mount of the screen: create or edit mode, with or without the permission
InitSeed ==
    /\ InitSearch
    /\ InitWaypoints
    /\ InitPanel
    /\ InitForm
    /\ userId # <<>> /\ db.media_attachments = <<>>
    /\ db.suggested_exercises = <<>> /\ db.waypoint_details = <<>>
    /\ \E locationPermission \in BOOLEAN : seed = SeedStart(isEditing, locationPermission)
    /\ InitMapSettled
    /\ lastOp = [op |-> "init"]

\* the seeding, next to the user's selections of search results
NextSeed ==
    \/ \E outcome \in {"granted", "denied", "throws"} : SeedRequestReturn(outcome)
    \/ \E outcome \in {"ok", "null", "throws"} : SeedPositionReturn(outcome)
    \/ \E outcome \in SeedOutcomes, addrs \in SeqsUpTo(Addresses, 1) :
          SeedReverseReturn(outcome, addrs)
    \/ \E r \in SelectInputs :
          Len(waypoints) < MaxWaypoints /\ HandleLocationSelect(r)
    \/ RemoveLastPin

SpecSeed == InitSeed /\ [][NextSeed]_vars

\* the map screen as it mounts
InitMapMount ==
    /\ InitSearch
    /\ InitWaypoints
    /\ InitPanel
    /\ InitForm /\ ~isEditing /\ userId # <<>>
    /\ seed = SeedOff
    /\ routes = <<>>
    /\ isMapReady = FALSE
    /\ mapMount = MapMounting
    /\ unhandled = {}
    /\ lastOp = [op |-> "init"]

\* the mount effects, next to what the user does on the map meanwhile
NextMapMount ==
    \/ \E outcome \in {"ok", "throws"} : LoadRoutesReturn(outcome)
    \/ \E outcome \in {"granted", "denied", "throws"} : LocationPermissionReturn(outcome)
    \/ \E outcome \in {"ok", "throws"} : LocationPositionReturn(outcome)
    \/ HandleLocateMeMap
    \/ \E outcome \in {"ok", "throws"} : LocateMeMapReturn(outcome)
    \/ \E r \in SelectInputs : HandleLocationSelectMap(r)
    \/ \E i \in 1..Len(routes) : HandleMarkerPress(routes[i].id)
    \/ HandleMapPressMap

SpecMapMount == InitMapMount /\ [][NextMapMount]_vars

(***************************************************************************)
(* Claims about the location search                                        *)
(***************************************************************************)
OnlyWhiteSpace(q) == \A i \in 1..Len(q) : q[i] \in {" ", "\t"}

FiredIds == { e.id : e \in geocodeLog }
PendingIds == { t.id : t \in timers }

\* C1: in a run of non-blank search calls each less than 300 ms after the one
\* before, the timer of every call but the last is cancelled without ever
\* firing, and geocodeAsync is invoked for no query but the last one's.
C1_DebounceOnlyLastFires ==
    \A i \in 1..(Len(calls) - 1) :
        ( /\ ~OnlyWhiteSpace(calls[i].query)
          /\ ~OnlyWhiteSpace(calls[i + 1].query)
          /\ calls[i + 1].at - calls[i].at < 300 )
        => /\ calls[i].timer \cap PendingIds = {}
           /\ calls[i].timer \cap FiredIds = {}
           /\ \A l \in lookups : l.id \notin calls[i].timer

\* two rapid non-blank calls, and the lookup of the second has run for its query
C1_Witness ==
    /\ Len(calls) = 2
    /\ ~OnlyWhiteSpace(calls[1].query) /\ ~OnlyWhiteSpace(calls[2].query)
    /\ calls[1].query # calls[2].query
    /\ calls[2].at - calls[1].at < 300
    /\ [id |-> 2, term |-> calls[2].query] \in geocodeLog

\* C2: a search call with an empty or whitespace-only query leaves the result
\* list empty and hidden, leaves no timer pending, schedules none, and no
\* geocodeAsync invocation ever belongs to such a call.
C2_BlankQueryClears ==
    /\ (lastOp.op = "handleSearch" /\ OnlyWhiteSpace(lastOp.query))
        => /\ searchResults = <<>>
           /\ showSearchResults = FALSE
           /\ timers = {}
           /\ calls[Len(calls)].timer = {}
    /\ \A i \in 1..Len(calls) :
          OnlyWhiteSpace(calls[i].query) => calls[i].timer \cap FiredIds = {}
    /\ \A e \in geocodeLog : ~OnlyWhiteSpace(e.term)

\* a whitespace-only call has just cancelled the pending lookup of a call before it
C2_Witness ==
    /\ lastOp.op = "handleSearch"
    /\ lastOp.query = <<"\t", " ">>
    /\ Len(calls) = 2
    /\ calls[1].timer # {}
    /\ calls[1].timer \cap FiredIds = {}
    /\ timers = {}

AppliedIds == { c.id : c \in { d \in completed : d.outcome = "applied" } }
MaxOf(S) == CHOOSE x \in S : \A y \in S : y <= x

\* C3 (as claimed): once every lookup has completed, the displayed list is the
\* one set by the latest-scheduled of the lookups that produced a result.
C3_LatestScheduledWins ==
    (lookups = {} /\ timers = {} /\ AppliedIds # {})
        => resultsFrom = {MaxOf(AppliedIds)}

FirstPos(h, c) == CHOOSE i \in 1..Len(h) : h[i] = c /\ \A j \in 1..(i - 1) : h[j] # c

\* C4: the list a lookup displays has exactly one entry per distinct
\* (latitude, longitude) among its geocode hits, in first-occurrence order.
C4_DedupFirstSeen ==
    lastOp.op = "reverseReturn" =>
        LET r == searchResults
            h == lastHits
        IN /\ { r[i].coords : i \in 1..Len(r) } = { h[i] : i \in 1..Len(h) }
           /\ \A i, j \in 1..Len(r) : i # j => r[i].coords # r[j].coords
           /\ \A i, j \in 1..Len(r) :
                 i < j => FirstPos(h, r[i].coords) < FirstPos(h, r[j].coords)

\* hits A, B, A with B differing from A in longitude only: two entries displayed
C4_Witness ==
    /\ lastOp.op = "reverseReturn"
    /\ Len(lastHits) = 3
    /\ lastHits[1] = lastHits[3]
    /\ lastHits[1].latitude = lastHits[2].latitude
    /\ lastHits[1].longitude # lastHits[2].longitude
    /\ Len(searchResults) = 2

(***************************************************************************)
(* Claims about the waypoint collector                                     *)
(***************************************************************************)
\* C5: 'Remove Last Pin' leaves an empty waypoint sequence empty, and turns a
\* sequence of n > 0 waypoints into its first n - 1 waypoints, in order.
C5_RemoveLast ==
    lastOp.op = "removeLast" =>
        LET before == lastOp.before
        IN /\ before = <<>> => waypoints = <<>>
           /\ before # <<>> =>
                 /\ Len(waypoints) = Len(before) - 1
                 /\ \A i \in 1..Len(waypoints) : waypoints[i] = before[i]

\* the last of two different waypoints has just been removed
C5_Witness ==
    /\ lastOp.op = "removeLast"
    /\ Len(lastOp.before) = 2
    /\ lastOp.before[1] # lastOp.before[2]
    /\ waypoints = <<lastOp.before[1]>>

(***************************************************************************)
(* Claims about the draggable panel                                        *)
(***************************************************************************)
DragEnded == lastOp.op = "onHandleStateChange" /\ lastOp.state = "END"

\* after a drag end, lastGesture holds the release position the handler used
SnappingTo(p) == animTo = {p} /\ currentSnapPoint = p

\* C7: whatever the release position, a release velocity below -500 snaps the
\* panel to expanded and one above +500 snaps it to collapsed.
C7_VelocityRule ==
    DragEnded =>
        /\ lastOp.velocityY < -500 => SnappingTo(Expanded)
        /\ lastOp.velocityY > 500 => SnappingTo(Collapsed)

\* released with velocity -501 nearest to collapsed, and yet snapping to expanded
C7_Witness ==
    /\ DragEnded
    /\ lastOp.velocityY = -501
    /\ lastGesture > Mid + 3
    /\ SnappingTo(Expanded)

SnapOrder(p) == IF p = Collapsed THEN 1 ELSE IF p = Mid THEN 2 ELSE 3

\* C8: with a release velocity within [-500, 500] the panel snaps to the snap
\* point nearest to the release position, the first of collapsed, mid,
\* expanded among equally near ones.
C8_PositionRule ==
    (DragEnded /\ lastOp.velocityY >= -500 /\ lastOp.velocityY <= 500) =>
        \E p \in {Collapsed, Mid, Expanded} :
            /\ SnappingTo(p)
            /\ \A q \in {Collapsed, Mid, Expanded} :
                  \/ Abs(p - lastGesture) < Abs(q - lastGesture)
                  \/ /\ Abs(p - lastGesture) = Abs(q - lastGesture)
                     /\ SnapOrder(p) <= SnapOrder(q)

\* released at rest half-way between mid and expanded: snapping to mid
C8_Witness ==
    /\ DragEnded
    /\ lastOp.velocityY = 0
    /\ lastGesture - Expanded = Mid - lastGesture
    /\ SnappingTo(Mid)

\* C9 (as claimed): at every drag event the displayed offset is the offset the
\* panel last settled at plus the drag translation, clamped to
\* [expanded, collapsed].
C9_DragTracksSettledOffset ==
    lastOp.op = "onGestureEvent" =>
        translateY = Max(Expanded, Min(Collapsed, settled + lastOp.translationY))

\* C10 (as claimed): with no drag in progress and the panel at rest, a scroll
\* event with offset > 0 snaps a panel resting at collapsed to mid, and a
\* scroll event with offset 0 snaps a panel resting at mid or expanded to
\* collapsed.
C10_ScrollCoupling ==
    [][ ( /\ lastOp'.op = "handleScroll"
          /\ gestureState # "ACTIVE" /\ ~isDragging
          /\ animTo = {} )
        => /\ (translateY = Collapsed /\ lastOp'.y > 0) => animTo' = {Mid}
           /\ (translateY \in {Mid, Expanded} /\ lastOp'.y = 0) => animTo' = {Collapsed}
      ]_vars

\* C11: a list scroll event delivered while a drag gesture is active and has
\* already delivered a move event changes neither the panel offset nor the
\* recorded snap point and starts no snap animation.
C11_DragPriority ==
    [][ ( /\ lastOp'.op = "handleScroll"
          /\ gestureState = "ACTIVE" /\ isDragging )
        => /\ translateY' = translateY
           /\ currentSnapPoint' = currentSnapPoint
           /\ animTo' = animTo /\ animTo' = {}
      ]_vars

\* a scroll away from the top arrives in the middle of a drag that has moved
\* the panel off collapsed, where an idle panel would have snapped to mid
C11_Witness ==
    /\ lastOp.op = "handleScroll" /\ lastOp.y > 0
    /\ gestureState = "ACTIVE" /\ isDragging
    /\ currentSnapPoint = Collapsed
    /\ translateY = Collapsed - 3
    /\ animTo = {}

\* C12: a marker press puts the panel at collapsed and selects that route (the
\* detail card is rendered for the selected route); a tap on the map while a
\* route is selected clears the selection and leaves the panel at collapsed.
C12_MarkerSelection ==
    /\ lastOp.op = "handleMarkerPress" =>
           /\ selectedRoute = {lastOp.route}
           /\ translateY = Collapsed /\ animTo = {}
    /\ (lastOp.op = "handleMapPress" /\ lastOp.hadSelection) =>
           /\ selectedRoute = {}
           /\ translateY = Collapsed /\ animTo = {}

\* a marker was pressed while the drag flag was set and the recorded snap point
\* was expanded, and the selection has then been dismissed by a map tap
C12_Witness ==
    /\ lastOp.op = "handleMapPress" /\ lastOp.hadSelection
    /\ isDragging
    /\ currentSnapPoint = Expanded
    /\ lastGesture # Collapsed
    /\ selectedRoute = {} /\ translateY = Collapsed


\* C17: when a geocode or reverse-geocode call of a lookup throws, the result
\* list and its visibility stay what they were, and nothing else changes: not
\* the query text, the pending timer, the waypoints, the viewport or the form.
C17_LookupThrowAbsorbed ==
    [][ lastOp'.op = "lookupThrow" =>
          /\ searchResults' = searchResults
          /\ showSearchResults' = showSearchResults
          /\ UNCHANGED <<searchQuery, searchTimeout, timers, resultsFrom,
                         waypointVars, panelVars, formVars>>
      ]_vars

\* a lookup threw while the results of an earlier lookup were displayed: they
\* are still displayed
C17_Witness ==
    /\ lastOp.op = "lookupThrow"
    /\ \E c \in completed : c.outcome = "error"
    /\ searchResults # <<>>
    /\ showSearchResults

(***************************************************************************)
(* Claims about the selection of a search result                           *)
(***************************************************************************)
\* the characters of a text other than the separators between address parts
Letters(text) == SelectSeq(text, LAMBDA ch : ch \notin {",", " "})

\* C16: pressing a result that has coordinates recentres the viewport on it
\* with span 0.01, sets the query text to the address' street, city and
\* country in that order and hides the result list; on the create-route
\* screen it appends exactly one waypoint with those coordinates and leaves
\* the earlier ones alone.  Pressing a result without coordinates changes no
\* state.
C16_SelectResult ==
    [][ lastOp'.op \in {"handleLocationSelect", "handleLocationSelectMap"} =>
          LET r == lastOp'.result
          IN IF "coords" \in DOMAIN r
             THEN /\ region' = [latitude |-> r.coords.latitude,
                                longitude |-> r.coords.longitude,
                                latitudeDelta |-> 100, longitudeDelta |-> 100]
                  /\ Letters(searchQuery') = Letters(r.street \o r.city \o r.country)
                  /\ showSearchResults' = FALSE
                  /\ IF lastOp'.op = "handleLocationSelect"
                     THEN /\ Len(waypoints') = Len(waypoints) + 1
                          /\ SubSeq(waypoints', 1, Len(waypoints)) = waypoints
                          /\ waypoints'[Len(waypoints')].latitude = r.coords.latitude
                          /\ waypoints'[Len(waypoints')].longitude = r.coords.longitude
                     ELSE waypoints' = waypoints
             ELSE UNCHANGED <<searchVars, waypointVars, panelVars, formVars>>
      ]_vars

\* a second waypoint was appended by a press on a row of a displayed result
\* list, which the press has hidden
C16_Witness ==
    /\ lastOp.op = "handleLocationSelect"
    /\ "coords" \in DOMAIN lastOp.result
    /\ Len(lastOp.before) = 1 /\ Len(waypoints) = 2
    /\ searchResults # <<>> /\ resultsFrom # {}
    /\ ~showSearchResults
    /\ searchQuery = <<"S", "t", ",", " ", "S", "E">>

(***************************************************************************)
(* Claims about the seeding on mount                                       *)
(***************************************************************************)
SeedOps == {"seedRequestReturn", "seedPositionReturn", "seedReverseReturn"}

\* the user has not moved the viewport by selecting a search result
ViewportNotMovedByUser == region.latitudeDelta # 100

C6_SubmitValidation ==
    [][ ( /\ lastOp'.op = "handleCreate"
          /\ (userId = <<>> \/ OnlyWhiteSpace(formName)) )
        => /\ backendLog' = backendLog
           /\ loading' = loading /\ ~loading'
           /\ navigated' = navigated
           /\ db' = db
           /\ create' = create
      ]_vars

\* a rejected submission of a whitespace-only name by a signed-in user, and
\* nothing has reached the backend
C6_Witness ==
    /\ lastOp.op = "handleCreate"
    /\ userId # <<>>
    /\ formName # <<>> /\ OnlyWhiteSpace(formName)
    /\ backendLog = <<>>
    /\ ~loading /\ ~navigated

\* the update payload computed when the read of the stored attachments returned
PayloadComputed == lastOp.op = "readExistingReturn" /\ lastOp.ok

IsHttpUri(u) == Len(u) >= 4 /\ u[1] = "h" /\ u[2] = "t" /\ u[3] = "t" /\ u[4] = "p"

\* C13: in edit mode the attachment list of the update payload is the stored
\* attachments whose url is the uri of some local media item, in stored order,
\* followed by the local items whose uri does not start with 'http' and is not
\* a stored url, in local order.
C13_MediaReconciliation ==
    PayloadComputed =>
        LET E == db.media_attachments
            M == create.c.media
            uris == { M[i].uri : i \in 1..Len(M) }
            urls == { E[i].url : i \in 1..Len(E) }
            kept == SelectSeq(E, LAMBDA a : a.url \in uris)
            fresh == SelectSeq(M, LAMBDA m : ~IsHttpUri(m.uri) /\ m.uri \notin urls)
        IN /\ Len(create.data.media_attachments) = Len(kept) + Len(fresh)
           /\ SubSeq(create.data.media_attachments, 1, Len(kept)) = kept
           /\ \A i \in 1..Len(fresh) :
                  create.data.media_attachments[Len(kept) + i] =
                      [type |-> fresh[i].type, url |-> fresh[i].uri]

\* stored [a, b], local [a, picked file]: b is dropped, a kept, the file added
C13_Witness ==
    /\ PayloadComputed
    /\ Len(db.media_attachments) = 2
    /\ db.media_attachments[1].url = UriA /\ db.media_attachments[2].url = UriB
    /\ Len(create.c.media) = 2
    /\ create.c.media[1].uri = UriA /\ create.c.media[2].uri = UriFile
    /\ Len(create.data.media_attachments) = 2
    /\ create.data.media_attachments[1].url = UriA
    /\ create.data.media_attachments[2].url = UriFile

(***************************************************************************)
(* Claims about the round trip through the stored row                      *)
(***************************************************************************)
\* loadRouteData has filled the form from a row that handleCreate wrote
LoadedWhatWasWritten == lastOp.op = "loadRouteData" /\ lastOp.ok /\ written # {}

Submitted == CHOOSE c \in written : TRUE

\* C14 (as claimed): the waypoints loadRouteData reconstructs from the
\* waypoint_details handleCreate wrote have the length, order, coordinates and
\* titles of the waypoints at submit time, and the viewport is centred on the
\* first of them.
C14_WaypointRoundTrip ==
    LoadedWhatWasWritten =>
        /\ Len(waypoints) = Len(Submitted.waypoints)
        /\ \A i \in 1..Len(waypoints) :
               /\ waypoints[i].latitude = Submitted.waypoints[i].latitude
               /\ waypoints[i].longitude = Submitted.waypoints[i].longitude
               /\ waypoints[i].title = Submitted.waypoints[i].title
        /\ Len(waypoints) > 0 =>
               /\ region.latitude = waypoints[1].latitude
               /\ region.longitude = waypoints[1].longitude

\* the collector holds a waypoint with an empty title
UntitledWaypoint == \E i \in 1..Len(waypoints) : waypoints[i].title = <<>>

\* the exercise list a row stores in suggested_exercises
StoredExercises(row) ==
    IF row.suggested_exercises = <<>> THEN <<>> ELSE row.suggested_exercises[2]

\* C15 (as claimed): an edit submission made after the route was loaded, with
\* the exercise list untouched, writes back the exercise list that was stored.
C15_ExerciseRoundTrip ==
    [][ ( /\ lastOp'.op = "writeReturn" /\ lastOp'.ok
          /\ isEditing /\ untouched )
        => StoredExercises(db') = StoredExercises(db)
      ]_vars

\* the upload of a new media item failed: uploadMediaInBackground threw
UploadFailed(op) ==
    op.op \in {"storageUploadReturn", "writeAttachmentsReturn"} /\ ~op.ok

\* C18: when the record was written and the upload of a new media item then
\* fails, the flow clears the loading state and navigates back, sets no error
\* message and leaves the written record as it is.
C18_UploadBestEffort ==
    [][ UploadFailed(lastOp') =>
          /\ loading /\ ~loading'
          /\ ~navigated /\ navigated'
          /\ error' = error
          /\ written # {}
          /\ db' = db /\ db'.exists /\ db'.name = Submitted.name
      ]_vars

\* a created route whose picked file failed to upload: the screen was left, no
\* error is shown and the row is there
C18_Witness ==
    /\ UploadFailed(lastOp)
    /\ ~isEditing
    /\ navigated /\ ~loading /\ error = <<>>
    /\ db.exists /\ db.name = <<"R">>
    /\ Len(db.media_attachments) = 1 /\ db.media_attachments[1].url = UriFile

\* C19: when the insert or update returns an error, handleCreate sets the
\* error message, clears the loading state, does not navigate and starts no
\* upload (no further backend call); and every handleCreate run that set
\* loading to true ends with loading false.
C19_WriteError ==
    [][ /\ (lastOp'.op = "writeReturn" /\ ~lastOp'.ok) =>
              /\ error' # <<>>
              /\ ~loading'
              /\ ~navigated'
              /\ backendLog' = backendLog
              /\ create'.pc = "idle"
              /\ db' = db
        /\ (create.pc = "idle" /\ create'.pc # "idle") => loading'
        /\ (create.pc # "idle" /\ create'.pc = "idle") => (loading /\ ~loading')
      ]_vars

\* the write of a route with a picked file failed: the error is shown on the
\* screen, which is still there, and only the failed write reached the backend
C19_Witness ==
    /\ lastOp.op = "writeReturn" /\ ~lastOp.ok
    /\ error # <<>> /\ ~loading /\ ~navigated
    /\ create.pc = "idle"
    /\ NewMediaItems(media) # <<>>
    /\ backendLog = <<"insert">>

(***************************************************************************)
(* Claims about the mount of the map screen                                *)
(***************************************************************************)
\* C21 (as claimed): no rejection of an asynchronous call escapes the handler
\* or mount effect that issued it, and the state updates that follow the call
\* are made: once the location effect of the map screen is over, the map is
\* marked ready.
C21_AllFailuresCaught ==
    /\ unhandled = {}
    /\ mapMount.locate = "done" => isMapReady

(***************************************************************************)
(* Claims about the upload of the new media                                *)
(***************************************************************************)
\* the attachment list uploadMediaInBackground read for the item it is at
ReadList == SubSeq(create.updatedAttachments, 1, Len(create.updatedAttachments) - 1)

\* C22: uploadMediaInBackground writes back the list it read plus the new
\* entry, whatever the row holds by then: every attachment stored on the row
\* between the read and the write of one item is absent from the array after
\* the write.
C22_LostUpdate ==
    [][ (lastOp'.op = "writeAttachmentsReturn" /\ lastOp'.ok) =>
          /\ db'.media_attachments = create.updatedAttachments
          /\ \A i \in 1..Len(db.media_attachments) :
                 ~Includes(ReadList, db.media_attachments[i])
                     => ~Includes(db'.media_attachments, db.media_attachments[i])
      ]_vars

\* the second writer stored its attachment between the read and the write of
\* an uploaded item, both writes succeeded, and the row no longer holds it
C22_Witness ==
    /\ lastOp.op = "writeAttachmentsReturn" /\ lastOp.ok
    /\ OtherEntry(1) \in appended
    /\ ~Includes(db.media_attachments, OtherEntry(1))
    /\ \E k \in 1..MaxPicked :
           Includes(db.media_attachments, [type |-> "image", url |-> PublicUrl(k)])

\* the save of a new route has gone through with every upload, and nobody
\* else has written the row
UploadsAllDone ==
    /\ lastOp.op = "writeAttachmentsReturn" /\ lastOp.ok
    /\ create.pc = "idle"
    /\ ~isEditing
    /\ other.writes = 0

\* C24 (as claimed): after a new route with k picked local files is saved and
\* the k uploads succeed, the stored media_attachments has exactly k entries,
\* one per file with its public storage url, and no entry with a device-local
\* uri.
C24_UploadedAttachments ==
    UploadsAllDone =>
        LET k == Len(Submitted.media)
        IN /\ Len(db.media_attachments) = k
           /\ \A j \in 1..k :
                  \E i \in 1..Len(db.media_attachments) :
                      /\ db.media_attachments[i].url = PublicUrl(j)
                      /\ db.media_attachments[i].type = Submitted.media[j].type
           /\ \A i \in 1..Len(db.media_attachments) :
                  IsHttpUri(db.media_attachments[i].url)

\* C25 (as claimed): in edit mode every item of the local media list at
\* submit time has an entry in the attachment list of the update payload; so
\* has a YouTube link added in the session.
C25_LocalMediaSubmitted ==
    PayloadComputed =>
        \A i \in 1..Len(create.c.media) :
            \E j \in 1..Len(create.data.media_attachments) :
                create.data.media_attachments[j].url = create.c.media[i].uri

\* C26 (as claimed): in edit mode, when the read of the stored attachments at
\* submit fails or returns no data, the update handleCreate issues does not
\* leave out an attachment that is stored on the row and whose url the local
\* media list still holds.
C26_FailedReadKeepsStored ==
    (lastOp.op = "readExistingReturn" /\ ~lastOp.ok) =>
        \A i \in 1..Len(db.media_attachments) :
            (\E k \in 1..Len(create.c.media) :
                 create.c.media[k].uri = db.media_attachments[i].url)
            => \E j \in 1..Len(create.data.media_attachments) :
                   create.data.media_attachments[j] = db.media_attachments[i]

(***************************************************************************)
(* Claims about the state of the panel between drags                       *)
(***************************************************************************)
\* no drag gesture is in progress and none has left the drag flag set
NoDragActive == gestureState # "ACTIVE" /\ ~isDragging

\* C27 (as claimed): in every state with no drag active the recorded snap
\* point is collapsed, mid or expanded and is the offset the panel is
\* displayed at, or the one its running animation goes to; also after a
\* marker press or a map tap has put the panel at collapsed.
C27_PanelConsistency ==
    NoDragActive =>
        /\ currentSnapPoint \in {Collapsed, Mid, Expanded}
        /\ IF animTo # {} THEN animTo = {currentSnapPoint}
           ELSE translateY = currentSnapPoint

\* C28 (as claimed): when a gesture finishes, by END, CANCELLED or FAILED, the
\* drag flag is false afterwards; and a scroll away from the top that arrives
\* while no gesture is active snaps a panel recorded at collapsed to mid.
C28_DragFlagCleared ==
    [][ /\ ( /\ lastOp'.op = "onHandleStateChange"
             /\ lastOp'.state \in {"END", "CANCELLED", "FAILED"} )
           => ~isDragging'
        /\ ( /\ lastOp'.op = "handleScroll" /\ lastOp'.y > 0
             /\ gestureState # "ACTIVE"
             /\ currentSnapPoint = Collapsed )
           => animTo' = {Mid}
      ]_vars

(***************************************************************************)
(* Claims about the seeding next to the user's own additions               *)
(***************************************************************************)
\* C29 (as claimed): no step of the seeding removes or replaces a waypoint
\* the user has added before it: every waypoint of the sequence before the
\* step is in the sequence after it.
C29_SeedingKeepsUserWaypoints ==
    [][ lastOp'.op \in SeedOps =>
          \A i \in 1..Len(waypoints) :
              \E j \in 1..Len(waypoints') : waypoints'[j] = waypoints[i]
      ]_vars

(***************************************************************************)
(* Claims about the picker and camera prompts                              *)
(***************************************************************************)
\* C30 (as claimed): when a prompt returns picked items, the media list holds
\* every item it held just before, whatever arrived while the prompt was
\* open, and then the picked items.
C30_NoMediaAdditionLost ==
    [][ (lastOp'.op = "promptReturn" /\ lastOp'.picked # <<>>) =>
          /\ \A i \in 1..Len(media) : Includes(media', media[i])
          /\ \A i \in 1..Len(lastOp'.picked) : Includes(media', lastOp'.picked[i])
      ]_vars

(***************************************************************************)
(* Claims about the map taps of the create-route screen                    *)
(***************************************************************************)
\* C23 (as claimed): when the reverse-geocode of a tapped point fails or
\* returns no address, handleMapPress appends exactly one waypoint at the
\* tapped coordinates, titled 'Waypoint N' with N the position the waypoint
\* takes in the sequence, whatever other taps are in flight.
C23_PositionalFallback ==
    [][ (lastOp'.op = "mapPressReverseReturn" /\ ~lastOp'.found) =>
          /\ Len(waypoints') = Len(waypoints) + 1
          /\ SubSeq(waypoints', 1, Len(waypoints)) = waypoints
          /\ waypoints'[Len(waypoints')].latitude = lastOp'.coordinate.latitude
          /\ waypoints'[Len(waypoints')].longitude = lastOp'.coordinate.longitude
          /\ waypoints'[Len(waypoints')].title =
                 <<"W", "a", "y", "p", "o", "i", "n", "t", " ">>
                     \o NumberToString(Len(waypoints'))
      ]_vars

====
